---- MODULE Spec2Model ----
(***************************************************************************)
(* Tabular addressing and aggregation engine of the GLC dashboard backend. *)
(* The module holds one state machine per component: every specification   *)
(* (SpecAddr, SpecDate, ...) drives the variables of its own component and *)
(* leaves the others at their idle values.                                 *)
(***************************************************************************)
EXTENDS Integers, Sequences, FiniteSets, TLC

VARIABLES
    \* address calculator: two coordinates of one domain and their rows
    addrDomain, coordA, coordB, rowA, rowB,
    \* business-day calendar: a date and the tab name each implementation gave
    targetDate, tabNames,
    \* grid parser: the fetched grid, the structure detected in it, and the
    \* results of a first and of a second call of parse_weekly_sheet on it
    values, structure, parseResult, parseAgain,
    \* spreadsheet and cache: the tabs of the turf spreadsheet and of the
    \* appointment spreadsheet, the weekly-sheet
    \* cache, the wall clock, and the last handler and read that returned;
    \* storedAt and opSeq record the order in which entries were stored
    sheets, salesSheets, cache, storedAt, now, opSeq, lastOp, lastRead,
    \* statistics: the appointment spreadsheet, the turf spreadsheet as the
    \* manager view reads it, and the answer to the statistics request
    apptSheets, managerSheets, statsResult,
    \* flat truck worksheet: the fetched grid and the deliveries made of it
    flatValues, deliveries,
    \* coordinate requests: the coordinate a caller gave, and the row number
    \* the calculator or the write handler made of it
    coordRequest, coordRow,
    \* week sheets: the reference date, the sheet names required from it, the
    \* sheet a week is read from, and the week start parsed back from its name
    australiaToday, requiredSheets, actualSheet, weekStart,
    \* business days: the arguments of a call of get_next_business_days, the
    \* caller, the loop's position and locals, and the day entries built
    startDate, dayCount, caller, pc, currentDate, businessDays, scheduleDays,
    \* grouping: the business days and the deliveries given to
    \* _group_deliveries_by_date, and the buckets it returned
    groupDays, groupDeliveries, grouped

addrVars == <<addrDomain, coordA, coordB, rowA, rowB>>
dateVars == <<targetDate, tabNames>>
parseVars == <<values, structure, parseResult, parseAgain>>
writeVars == <<sheets, salesSheets, cache, storedAt, now, opSeq, lastOp, lastRead>>
aggVars == <<apptSheets, managerSheets, statsResult>>
costVars == <<flatValues, deliveries>>
coordVars == <<coordRequest, coordRow>>
weekVars == <<australiaToday, requiredSheets, actualSheet, weekStart>>
daysVars ==
    <<startDate, dayCount, caller, pc, currentDate, businessDays, scheduleDays>>
groupVars == <<groupDays, groupDeliveries, grouped>>
vars ==
    <<addrVars, dateVars, parseVars, writeVars, aggVars, costVars, coordVars,
      weekVars, daysVars, groupVars>>
\* The variables of the other components, for each component.
notAddr ==
    <<dateVars, parseVars, writeVars, aggVars, costVars, coordVars,
      weekVars, daysVars, groupVars>>
notDate ==
    <<addrVars, parseVars, writeVars, aggVars, costVars, coordVars,
      weekVars, daysVars, groupVars>>
notParse ==
    <<addrVars, dateVars, writeVars, aggVars, costVars, coordVars,
      weekVars, daysVars, groupVars>>
notWrite ==
    <<addrVars, dateVars, parseVars, aggVars, costVars, coordVars,
      weekVars, daysVars, groupVars>>
notAgg ==
    <<addrVars, dateVars, parseVars, writeVars, costVars, coordVars,
      weekVars, daysVars, groupVars>>
notCost ==
    <<addrVars, dateVars, parseVars, writeVars, aggVars, coordVars,
      weekVars, daysVars, groupVars>>
notWeek ==
    <<addrVars, dateVars, parseVars, writeVars, aggVars, costVars, coordVars,
      daysVars, groupVars>>
notDays ==
    <<addrVars, dateVars, parseVars, writeVars, aggVars, costVars, coordVars,
      weekVars, groupVars>>
notCoord ==
    <<addrVars, dateVars, parseVars, writeVars, aggVars, costVars,
      weekVars, daysVars, groupVars>>
notGroup ==
    <<addrVars, dateVars, parseVars, writeVars, aggVars, costVars, coordVars,
      weekVars, daysVars>>

\* Results of operations: a returned value, a raised exception, or nothing yet.
\* (Records with different fields compare unequal, whatever the values' types.)
Ok(v) == [ok |-> v]
Raise(e) == [exc |-> e]
NoResult == [none |-> TRUE]
IsOk(r) == DOMAIN r = {"ok"}
IsRaise(r) == DOMAIN r = {"exc"}
None == "None"

(***************************************************************************)
(* Layout model and address calculator                                     *)
(***************************************************************************)
Turf_TRUCKS == {"TRUCK 1", "TRUCK 2"}
Turf_DAYS == {"Monday", "Tuesday", "Wednesday", "Thursday", "Friday"}

Turf_DAY_HEADER_ROWS ==
    [d \in Turf_DAYS |->
        CASE d = "Monday" -> 1
          [] d = "Tuesday" -> 24
          [] d = "Wednesday" -> 47
          [] d = "Thursday" -> 70
          [] d = "Friday" -> 93]

TRUCK_SLOT_OFFSETS ==
    [t \in Turf_TRUCKS |-> IF t = "TRUCK 1" THEN 4 ELSE 14]

SLOTS_PER_TRUCK == 6

\* Mutant: the truck offset is forgotten, both trucks start at day_row + 4.
Turf_calculate_row_number_NoTruck(day, truck, slot) ==
    IF day \in DOMAIN Turf_DAY_HEADER_ROWS /\ truck \in DOMAIN TRUCK_SLOT_OFFSETS
    THEN Ok(Turf_DAY_HEADER_ROWS[day] + 4 + (slot - 1))
    ELSE Raise("KeyError")

\* TurfDeliveryService.calculate_row_number: the tables are indexed with [],
\* so an unknown day or truck raises KeyError.
Turf_calculate_row_number(day, truck, slot) ==
    IF day \in DOMAIN Turf_DAY_HEADER_ROWS /\ truck \in DOMAIN TRUCK_SLOT_OFFSETS
    THEN Ok(Turf_DAY_HEADER_ROWS[day] + TRUCK_SLOT_OFFSETS[truck] + (slot - 1))
    ELSE Raise("KeyError")

SALES_REPS == {"GLEN", "GREAT REP", "ILAN"}
Sales_DAYS_SEQ == <<"Monday", "Tuesday", "Wednesday", "Thursday", "Friday", "Saturday">>
SALES_REPS_SEQ == <<"GLEN", "GREAT REP", "ILAN">>
Sales_DAYS == {Sales_DAYS_SEQ[i] : i \in 1..Len(Sales_DAYS_SEQ)}

Sales_DAY_HEADER_ROWS ==
    [d \in Sales_DAYS |->
        CASE d = "Monday" -> 1
          [] d = "Tuesday" -> 31
          [] d = "Wednesday" -> 61
          [] d = "Thursday" -> 91
          [] d = "Friday" -> 121
          [] d = "Saturday" -> 151]

SLOTS_PER_DAY ==
    [d \in Sales_DAYS |-> IF d = "Saturday" THEN 3 ELSE 5]

REP_SLOT_OFFSETS ==
    [r \in SALES_REPS |->
        CASE r = "GLEN" -> 4 [] r = "GREAT REP" -> 13 [] r = "ILAN" -> 22]

SATURDAY_REP_SLOT_OFFSETS ==
    [r \in SALES_REPS |->
        CASE r = "GLEN" -> 4 [] r = "GREAT REP" -> 10 [] r = "ILAN" -> 16]

\* dict.get(key, default)
DictGet(dict, key, default) == IF key \in DOMAIN dict THEN dict[key] ELSE default

\* SalesService.calculate_row_number: lookups with .get, defaults 1 and 4.
Sales_calculate_row_number(day, rep, slot) ==
    LET day_base == DictGet(Sales_DAY_HEADER_ROWS, day, 1)
        rep_offset == IF day = "Saturday"
                      THEN DictGet(SATURDAY_REP_SLOT_OFFSETS, rep, 4)
                      ELSE DictGet(REP_SLOT_OFFSETS, rep, 4)
    IN  Ok(day_base + rep_offset + (slot - 1))

\* The in-bounds coordinates of each domain.
TurfCoords ==
    [day : Turf_DAYS, group : Turf_TRUCKS, slot : 1..SLOTS_PER_TRUCK]
SalesCoords ==
    UNION {[day : {d}, group : SALES_REPS, slot : 1..SLOTS_PER_DAY[d]] : d \in Sales_DAYS}

AddrIdle ==
    /\ addrDomain = None /\ coordA = None /\ coordB = None
    /\ rowA = NoResult /\ rowB = NoResult

InitAddr ==
    /\ \/ addrDomain = "turf" /\ coordA \in TurfCoords /\ coordB \in TurfCoords
       \/ addrDomain = "sales" /\ coordA \in SalesCoords /\ coordB \in SalesCoords
    /\ rowA = NoResult /\ rowB = NoResult

TurfAddress ==
    /\ addrDomain = "turf" /\ rowA = NoResult
    /\ rowA' = Turf_calculate_row_number(coordA.day, coordA.group, coordA.slot)
    /\ rowB' = Turf_calculate_row_number(coordB.day, coordB.group, coordB.slot)
    /\ UNCHANGED <<addrDomain, coordA, coordB>>

SalesAddress ==
    /\ addrDomain = "sales" /\ rowA = NoResult
    /\ rowA' = Sales_calculate_row_number(coordA.day, coordA.group, coordA.slot)
    /\ rowB' = Sales_calculate_row_number(coordB.day, coordB.group, coordB.slot)
    /\ UNCHANGED <<addrDomain, coordA, coordB>>

\* The validation at the head of create_delivery and (when no row number is
\* given) of delete_delivery, and the row number computed behind it: an
\* unknown day or truck or a slot outside 1..SLOTS_PER_TRUCK is answered
\* with error_code 400 before any row number is computed.
Turf_validated_row_number(day, truck, slot) ==
    IF day \notin Turf_DAYS THEN [success |-> FALSE, error_code |-> 400]
    ELSE IF truck \notin Turf_TRUCKS THEN [success |-> FALSE, error_code |-> 400]
    ELSE IF slot < 1 \/ slot > SLOTS_PER_TRUCK THEN [success |-> FALSE, error_code |-> 400]
    ELSE Turf_calculate_row_number(day, truck, slot)

\* The coordinates callers may give: known and unknown days and groups, slots
\* inside and outside the range.
TurfRequestCoords ==
    [day : Turf_DAYS \cup {"Saturday", "Sunday"},
     group : Turf_TRUCKS \cup {"TRUCK 3"},
     slot : 0..(SLOTS_PER_TRUCK + 1)]
SalesRequestCoords ==
    [day : Sales_DAYS \cup {"Sunday"},
     group : SALES_REPS \cup {"NOBODY"},
     slot : 0..6]

CoordIdle == coordRequest = NoResult /\ coordRow = NoResult

InitCoord == coordRequest = NoResult /\ coordRow = NoResult

CoordAnswered(domain, op, c, row) ==
    /\ coordRequest = NoResult
    /\ coordRequest' = [domain |-> domain, op |-> op, day |-> c.day, group |-> c.group,
                        slot |-> c.slot]
    /\ coordRow' = row

\* TurfDeliveryService.calculate_row_number called with a coordinate.
TurfCalculateRowNumber ==
    \E c \in TurfRequestCoords :
        CoordAnswered("turf", "calculate", c,
                      Turf_calculate_row_number(c.day, c.group, c.slot))

\* SalesService.calculate_row_number called with a coordinate.
SalesCalculateRowNumber ==
    \E c \in SalesRequestCoords :
        CoordAnswered("sales", "calculate", c,
                      Sales_calculate_row_number(c.day, c.group, c.slot))

\* create_delivery or delete_delivery called with a coordinate: the row the
\* write would address.
TurfWriteRowNumber ==
    \E c \in TurfRequestCoords :
        CoordAnswered("turf", "write", c,
                      Turf_validated_row_number(c.day, c.group, c.slot))

(***************************************************************************)
(* Business-day calendar: dates, weekday, strftime('%b-%d')                *)
(***************************************************************************)
\* datetime.date as [year, month, day]; arithmetic goes through the proleptic
\* Gregorian ordinal (date(1, 1, 1) has ordinal 1), as in the datetime module.
IsLeap(y) == (y % 4 = 0) /\ ((y % 100 # 0) \/ (y % 400 = 0))

DaysInMonth(y, m) ==
    CASE m \in {1, 3, 5, 7, 8, 10, 12} -> 31
      [] m \in {4, 6, 9, 11} -> 30
      [] OTHER -> IF IsLeap(y) THEN 29 ELSE 28

DaysBeforeYear(y) ==
    LET p == y - 1 IN p * 365 + (p \div 4) - (p \div 100) + (p \div 400)

RECURSIVE DaysBeforeMonth(_, _)
DaysBeforeMonth(y, m) ==
    IF m = 1 THEN 0 ELSE DaysBeforeMonth(y, m - 1) + DaysInMonth(y, m - 1)

ToOrdinal(d) == DaysBeforeYear(d.year) + DaysBeforeMonth(d.year, d.month) + d.day

\* The years the model's dates fall in: the years around the present, a year
\* whose 29 February is a Monday, and the last year a date can have.
ModelYears == (2024..2029) \cup {2044, 9999}

FromOrdinal(n) ==
    LET y == CHOOSE yy \in ModelYears :
                 DaysBeforeYear(yy) < n /\ n <= DaysBeforeYear(yy + 1)
        r == n - DaysBeforeYear(y)
        m == CHOOSE mm \in 1..12 :
                 DaysBeforeMonth(y, mm) < r /\ r <= DaysBeforeMonth(y, mm) + DaysInMonth(y, mm)
    IN  [year |-> y, month |-> m, day |-> r - DaysBeforeMonth(y, m)]

\* date.isoweekday(): Monday = 1 .. Sunday = 7.
IsoWeekday(d) == LET w == ToOrdinal(d) % 7 IN IF w = 0 THEN 7 ELSE w

\* date.weekday(): Monday = 0 .. Sunday = 6.
Weekday(d) == (ToOrdinal(d) + 6) % 7

\* date - timedelta(days = k)
DateMinusDays(d, k) == FromOrdinal(ToOrdinal(d) - k)
DatePlusDays(d, k) == FromOrdinal(ToOrdinal(d) + k)

MonthAbbr ==
    <<"Jan", "Feb", "Mar", "Apr", "May", "Jun",
      "Jul", "Aug", "Sep", "Oct", "Nov", "Dec">>
Digit == <<"0", "1", "2", "3", "4", "5", "6", "7", "8", "9">>

\* strftime('%b-%d'): month abbreviation, '-', day of month zero-padded to two digits.
Strftime_b_d(d) ==
    MonthAbbr[d.month] \o "-" \o Digit[(d.day \div 10) + 1] \o Digit[(d.day % 10) + 1]

\* Mutant: the Monday is found with isoweekday() (Monday = 1) instead of weekday().
get_week_sheet_name_Iso(target_date) ==
    Strftime_b_d(DateMinusDays(target_date, IsoWeekday(target_date)))

\* google_sheets_service.get_week_sheet_name
get_week_sheet_name(target_date) ==
    LET days_since_monday == Weekday(target_date)
        monday == DateMinusDays(target_date, days_since_monday)
    IN  Strftime_b_d(monday)

\* SalesService.get_week_tab_name
Sales_get_week_tab_name(target_date) ==
    LET days_since_monday == Weekday(target_date)
        monday_of_week == DateMinusDays(target_date, days_since_monday)
    IN  Strftime_b_d(monday_of_week)

\* TurfDeliveryService.get_week_tab_name
TurfDelivery_get_week_tab_name(target_date) ==
    LET days_since_monday == Weekday(target_date)
        monday == DateMinusDays(target_date, days_since_monday)
    IN  Strftime_b_d(monday)

\* TurfManagerService.get_week_tab_name
TurfManager_get_week_tab_name(target_date) ==
    LET days_since_monday == Weekday(target_date)
        monday_of_week == DateMinusDays(target_date, days_since_monday)
    IN  Strftime_b_d(monday_of_week)

\* The dates the calendar is exercised on: a window over the 2025/2026 year
\* boundary and one over the leap day of 2028.
MaxDateSpan == 75
Date(y, m, d) == [year |-> y, month |-> m, day |-> d]
DateWindow(first) == {DatePlusDays(first, i) : i \in 0..(MaxDateSpan - 1)}
ModelDates == DateWindow(Date(2025, 12, 1)) \cup DateWindow(Date(2028, 2, 1))

TabImpls == {"gss", "sales", "turf", "manager"}

DateIdle == targetDate = None /\ tabNames = None

InitDate ==
    /\ targetDate \in ModelDates
    /\ tabNames = [i \in TabImpls |-> NoResult]

GetWeekSheetName ==
    /\ tabNames["gss"] = NoResult
    /\ tabNames' = [tabNames EXCEPT !["gss"] = Ok(get_week_sheet_name(targetDate))]
    /\ UNCHANGED targetDate

SalesGetWeekTabName ==
    /\ tabNames["sales"] = NoResult
    /\ tabNames' = [tabNames EXCEPT !["sales"] = Ok(Sales_get_week_tab_name(targetDate))]
    /\ UNCHANGED targetDate

TurfDeliveryGetWeekTabName ==
    /\ tabNames["turf"] = NoResult
    /\ tabNames' = [tabNames EXCEPT !["turf"] = Ok(TurfDelivery_get_week_tab_name(targetDate))]
    /\ UNCHANGED targetDate

TurfManagerGetWeekTabName ==
    /\ tabNames["manager"] = NoResult
    /\ tabNames' = [tabNames EXCEPT !["manager"] = Ok(TurfManager_get_week_tab_name(targetDate))]
    /\ UNCHANGED targetDate

(***************************************************************************)
(* Week sheets: the sheets a schedule needs and the week start of a sheet  *)
(***************************************************************************)
\* None, where a date is expected.
PyNone == [py_none |-> TRUE]

\* datetime.date(year, month, day)
PyDate(year, month, day) ==
    IF year \notin 1..9999 \/ month \notin 1..12 \/ day \notin 1..DaysInMonth(year, month)
    THEN Raise("ValueError")
    ELSE Date(year, month, day)

\* The text '%b-%d' gives for each month and day number of 01..31.
MonthDayText ==
    [md \in (1..12) \X (1..31) |->
        MonthAbbr[md[1]] \o "-" \o Digit[(md[2] \div 10) + 1] \o Digit[(md[2] % 10) + 1]]

\* The month and day the pattern of '%b-%d' finds in a string.
Strptime_b_d_Match(s) == {md \in DOMAIN MonthDayText : MonthDayText[md] = s}

\* datetime.strptime(s, '%b-%d'): the string has to match the format, and the
\* datetime is built from the matched month and day in the default year 1900.
Strptime_b_d(s) ==
    LET found == Strptime_b_d_Match(s) IN
    IF found = {} THEN Raise("ValueError")
    ELSE LET md == CHOOSE x \in found : TRUE
         IN  PyDate(1900, md[1], md[2])

\* google_sheets_service.parse_sheet_name_to_date; today is get_australia_today()
parse_sheet_name_to_date(sheet_name, today) ==
    LET parsed == Strptime_b_d(sheet_name) IN
    IF IsRaise(parsed) THEN PyNone
    ELSE LET year ==
                 IF parsed.month = 1 /\ today.month = 12 THEN today.year + 1
                 ELSE IF parsed.month = 12 /\ today.month = 1 THEN today.year - 1
                 ELSE today.year
             made == PyDate(year, parsed.month, parsed.day)
         IN  IF IsRaise(made) THEN PyNone ELSE made

\* The place of a month's abbreviation among the twelve in string order
\* (Apr, Aug, Dec, Feb, Jan, Jul, Jun, Mar, May, Nov, Oct, Sep).
MonthAbbrOrder == <<5, 4, 8, 1, 9, 7, 6, 2, 12, 11, 10, 3>>

\* A number that orders the sheet names as their strings are ordered.
SheetNameOrder(s) ==
    LET md == CHOOSE x \in Strptime_b_d_Match(s) : TRUE
    IN  MonthAbbrOrder[md[1]] * 100 + md[2]

\* sorted(list(sheets_needed))
RECURSIVE SortedSheetNames(_)
SortedSheetNames(names) ==
    IF names = {} THEN <<>>
    ELSE LET least == CHOOSE x \in names :
                          \A y \in names : SheetNameOrder(x) <= SheetNameOrder(y)
         IN  <<least>> \o SortedSheetNames(names \ {least})

\* The loop of get_required_week_sheets.
RECURSIVE RequiredWeekSheetsLoop(_, _, _, _)
RequiredWeekSheetsLoop(sheets_needed, day, days_counted, num_business_days) ==
    IF days_counted < num_business_days
    THEN IF Weekday(day) < 5
         THEN RequiredWeekSheetsLoop(sheets_needed \cup {get_week_sheet_name(day)},
                                     DatePlusDays(day, 1), days_counted + 1,
                                     num_business_days)
         ELSE RequiredWeekSheetsLoop(sheets_needed, DatePlusDays(day, 1), days_counted,
                                     num_business_days)
    ELSE sheets_needed

\* google_sheets_service.get_required_week_sheets
get_required_week_sheets(start_date, num_business_days) ==
    SortedSheetNames(RequiredWeekSheetsLoop({}, start_date, 0, num_business_days))

\* The reference dates: the dates of the calendar and a window over the
\* Monday 29 February of 2044.
ReferenceDates == ModelDates \cup DateWindow(Date(2044, 2, 1))

WeekIdle ==
    /\ australiaToday = None
    /\ requiredSheets = NoResult
    /\ actualSheet = None
    /\ weekStart = NoResult

InitWeek ==
    /\ australiaToday \in ReferenceDates
    /\ requiredSheets = NoResult
    /\ actualSheet = None
    /\ weekStart = NoResult

\* GoogleSheetsService.get_truck_deliveries, the sheets it asks for
GetRequiredWeekSheets ==
    /\ requiredSheets = NoResult
    /\ requiredSheets' = Ok(get_required_week_sheets(australiaToday, 10))
    /\ UNCHANGED <<australiaToday, actualSheet, weekStart>>

\* GoogleSheetsService.get_truck_deliveries, the week start of a sheet read:
\* the sheet is a required one or, when none matches it, "MASTER".
ParseSheetNameToDate ==
    /\ requiredSheets # NoResult
    /\ weekStart = NoResult
    /\ \E i \in 0..Len(requiredSheets.ok) :
           LET actual_sheet == IF i = 0 THEN "MASTER" ELSE requiredSheets.ok[i] IN
           /\ actualSheet' = actual_sheet
           /\ weekStart' = parse_sheet_name_to_date(actual_sheet, australiaToday)
    /\ UNCHANGED <<australiaToday, requiredSheets>>

(***************************************************************************)
(* Business days: the loop of get_next_business_days and its caller        *)
(***************************************************************************)
\* date.max
DateMax == Date(9999, 12, 31)

\* date + timedelta(days = k), for k >= 0: no date lies past date.max.
DateAddDays(d, k) ==
    IF ToOrdinal(d) + k > ToOrdinal(DateMax)
    THEN Raise("OverflowError")
    ELSE DatePlusDays(d, k)

WeekdayNames ==
    <<"Monday", "Tuesday", "Wednesday", "Thursday", "Friday", "Saturday", "Sunday">>

\* strftime('%A')
Strftime_A(d) == WeekdayNames[Weekday(d) + 1]

\* The start dates: the dates over the 2025/2026 year boundary and the last
\* dates there are; the counts a direct caller asks for.
MaxCount == 10
StartDates ==
    DateWindow(Date(2025, 12, 1))
        \cup {DateMinusDays(DateMax, i) : i \in 0..(MaxDateSpan - 1)}

DaysIdle ==
    /\ startDate = None
    /\ dayCount = 0
    /\ caller = None
    /\ pc = "idle"
    /\ currentDate = None
    /\ businessDays = <<>>
    /\ scheduleDays = NoResult

\* get_next_business_days has been called and stands before its loop:
\* business_days = [] and current = start_date. build_schedule asks for 10 days.
InitDays ==
    /\ startDate \in StartDates
    /\ \/ caller = "direct" /\ dayCount \in 0..MaxCount
       \/ caller = "build_schedule" /\ dayCount = 10
    /\ pc = "loop"
    /\ currentDate = startDate
    /\ businessDays = <<>>
    /\ scheduleDays = NoResult

\* One turn of the loop of get_next_business_days: a Monday-Friday date is
\* appended, and current moves one day on.
LoopBusinessDay ==
    /\ pc = "loop"
    /\ Len(businessDays) < dayCount
    /\ businessDays' =
           IF Weekday(currentDate) < 5
           THEN Append(businessDays, currentDate)
           ELSE businessDays
    /\ LET next == DateAddDays(currentDate, 1) IN
       IF IsRaise(next)
       THEN pc' = "raised" /\ UNCHANGED currentDate
       ELSE pc' = "loop" /\ currentDate' = next
    /\ UNCHANGED <<startDate, dayCount, caller, scheduleDays>>

\* The loop's condition fails: get_next_business_days returns business_days.
ReturnBusinessDays ==
    /\ pc = "loop"
    /\ Len(businessDays) >= dayCount
    /\ pc' = "returned"
    /\ UNCHANGED <<startDate, dayCount, caller, currentDate, businessDays, scheduleDays>>

\* ScheduleBuilder.build_schedule, after get_next_business_days returned: one
\* day entry for each business day (no deliveries are given, so the truck
\* data of every entry is empty).
BuildSchedule ==
    /\ pc = "returned"
    /\ caller = "build_schedule"
    /\ scheduleDays = NoResult
    /\ scheduleDays' =
           Ok([i \in 1..Len(businessDays) |->
                  [date |-> businessDays[i],
                   day_of_week |-> Strftime_A(businessDays[i]),
                   is_week_two |-> (i - 1 >= 5),
                   truck1 |-> <<>>,
                   truck2 |-> <<>>]])
    /\ UNCHANGED <<startDate, dayCount, caller, pc, currentDate, businessDays>>

(***************************************************************************)
(* Cells and the string conversions the parsers apply to them              *)
(***************************************************************************)
\* A cell is a string (the Sheets API returns formatted values); a row is a
\* sequence of cells, a grid a sequence of rows.  The conversions are given
\* on the strings the model's grids are built from.
StrStrip(s) ==
    CASE s = " Totals " -> "Totals"
      [] s = " 100 " -> "100"
      [] s = " yes " -> "yes"
      [] OTHER -> s

StrUpper(s) ==
    CASE s = "Truck 2" -> "TRUCK 2"
      [] s = "Slot" -> "SLOT"
      [] s = "Day" -> "DAY"
      [] s = "Totals" -> "TOTALS"
      [] s = "sd" -> "SD"
      [] s = "Monday" -> "MONDAY"
      [] s = "Tuesday" -> "TUESDAY"
      [] s = "Monday - Daily Turf Deliveries" -> "MONDAY - DAILY TURF DELIVERIES"
      [] s = "Tuesday - Daily Turf Deliveries" -> "TUESDAY - DAILY TURF DELIVERIES"
      [] s = "Empire Zoysia" -> "EMPIRE ZOYSIA"
      [] s = "Sir Walter" -> "SIR WALTER"
      [] s = "abc" -> "ABC"
      [] s = "f" -> "F"
      [] OTHER -> s

StrLower(s) ==
    CASE s = "Truck 2" -> "truck 2"
      [] s = "TRUCK 1" -> "truck 1"
      [] s = "Slot" -> "slot"
      [] s = "Day" -> "day"
      [] s = "Totals" -> "totals"
      [] s = "SL" -> "sl"
      [] s = "P" -> "p"
      [] s = "Yes" -> "yes"
      [] s = "Monday" -> "monday"
      [] s = "Tuesday" -> "tuesday"
      [] s = "Monday - Daily Turf Deliveries" -> "monday - daily turf deliveries"
      [] s = "Tuesday - Daily Turf Deliveries" -> "tuesday - daily turf deliveries"
      [] s = "Empire Zoysia" -> "empire zoysia"
      [] s = "Sir Walter" -> "sir walter"
      [] s = "Friday" -> "friday"
      [] s = "Saturday" -> "saturday"
      [] s = "Monday W2" -> "monday w2"
      [] s = "Mon" -> "mon"
      [] s = "Fri Week 2" -> "fri week 2"
      [] s = "Holiday" -> "holiday"
      [] OTHER -> s

\* str.startswith
StartsWith(s, prefix) ==
    \/ s = prefix
    \/ s = "Monday - Daily Turf Deliveries" /\ prefix \in {"Monday", "Monday -"}
    \/ s = "Tuesday - Daily Turf Deliveries" /\ prefix \in {"Tuesday", "Tuesday -"}
    \/ s = "monday - daily turf deliveries" /\ prefix \in {"monday", "monday -"}
    \/ s = "tuesday - daily turf deliveries" /\ prefix \in {"tuesday", "tuesday -"}

\* int(s): surrounding blanks are accepted, anything but digits raises.
PyInt(s) ==
    CASE s = "1" -> Ok(1)
      [] s = "2" -> Ok(2)
      [] s = "7" -> Ok(7)
      [] s = "0" -> Ok(0)
      [] s = "6" -> Ok(6)
      [] s = "8" -> Ok(8)
      [] s = "10" -> Ok(10)
      [] s = "12" -> Ok(12)
      [] s = "50" -> Ok(50)
      [] s = "60" -> Ok(60)
      [] s = "100" -> Ok(100)
      [] s = "150" -> Ok(150)
      [] s = "220" -> Ok(220)
      [] s = "500" -> Ok(500)
      [] s = "1000" -> Ok(1000)
      [] s = "1200" -> Ok(1200)
      [] s = " 100 " -> Ok(100)
      [] OTHER -> Raise("ValueError")

\* float(s), in whole units.
PyFloat(s) ==
    CASE s = "1" -> Ok(1)
      [] s = "2" -> Ok(2)
      [] s = "7" -> Ok(7)
      [] s = "0" -> Ok(0)
      [] s = "6" -> Ok(6)
      [] s = "8" -> Ok(8)
      [] s = "10" -> Ok(10)
      [] s = "12" -> Ok(12)
      [] s = "50" -> Ok(50)
      [] s = "60" -> Ok(60)
      [] s = "100" -> Ok(100)
      [] s = "150" -> Ok(150)
      [] s = "220" -> Ok(220)
      [] s = "500" -> Ok(500)
      [] s = "1000" -> Ok(1000)
      [] s = "1200" -> Ok(1200)
      [] s = " 100 " -> Ok(100)
      [] OTHER -> Raise("ValueError")

\* s.replace(',', '').replace('$', '')
StripCurrency(s) ==
    CASE s = "$100" -> "100"
      [] s = "1,00" -> "100"
      [] s = "$1,000" -> "1000"
      [] s = "$10" -> "10"
      [] OTHER -> s

\* Python truth value of a cell: None and '' are false.
Truthy(c) == c # None /\ c # ""

\* row[idx] if len(row) > idx else None   (idx is 0-based)
CellOrNone(row, idx) == IF Len(row) > idx THEN row[idx + 1] ELSE None

VALID_DAYS == <<"Monday", "Tuesday", "Wednesday", "Thursday", "Friday">>

\* WeeklySheetParser._safe_float
safe_float(value, default) ==
    IF value = None \/ value = "" THEN default
    ELSE LET r == PyFloat(StrStrip(StripCurrency(value)))
         IN  IF IsOk(r) THEN r.ok ELSE default

\* WeeklySheetParser._safe_str
safe_str(value, default) == IF value = None THEN default ELSE StrStrip(value)

\* WeeklySheetParser._safe_int: int(float(value))
safe_int(value, default) ==
    IF value = None \/ value = "" THEN default
    ELSE LET r == PyFloat(value) IN IF IsOk(r) THEN r.ok ELSE default

\* The first day of VALID_DAYS that the cell starts with, as <<day>>; <<>> if none.
FirstDayPrefix(cell) ==
    LET hits == {i \in 1..Len(VALID_DAYS) : StartsWith(cell, VALID_DAYS[i])}
    IN  IF hits = {} THEN <<>>
        ELSE <<VALID_DAYS[CHOOSE i \in hits : \A j \in hits : i <= j]>>

\* WeeklySheetParser._is_day_header: <<day>> for a day header, <<>> otherwise.
is_day_header(row) ==
    IF Len(row) = 0 \/ ~Truthy(row[1]) THEN <<>>
    ELSE FirstDayPrefix(StrStrip(row[1]))

\* WeeklySheetParser._is_day_value
is_day_value(value) ==
    IF value = None THEN <<>> ELSE FirstDayPrefix(StrStrip(value))

\* WeeklySheetParser._is_truck_header: <<"Truck 1">>, <<"Truck 2">> or <<>>.
is_truck_header(row) ==
    IF Len(row) = 0 \/ ~Truthy(row[1]) THEN <<>>
    ELSE LET cell == StrUpper(StrStrip(row[1]))
         IN  CASE cell = "TRUCK 1" -> <<"Truck 1">>
               [] cell = "TRUCK 2" -> <<"Truck 2">>
               [] OTHER -> <<>>

\* WeeklySheetParser._is_slot_row
is_slot_row(row) ==
    IF Len(row) = 0 \/ ~Truthy(row[1]) THEN FALSE
    ELSE LET r == PyInt(row[1]) IN IsOk(r) /\ 1 <= r.ok /\ r.ok <= 6

\* WeeklySheetParser._is_day_data_row: <<day>> for a data row, <<>> otherwise.
is_day_data_row(row) ==
    IF Len(row) = 0 \/ Len(row) < 5 THEN <<>>
    ELSE LET d == is_day_value(row[1])
             variety == IF Len(row) > 1 /\ Truthy(row[2]) THEN StrStrip(row[2]) ELSE ""
             sqm_str == IF Len(row) > 4 /\ Truthy(row[5]) THEN StrStrip(row[5]) ELSE ""
         IN  IF d = <<>> THEN <<>>
             ELSE IF variety # "" \/ sqm_str # "" THEN d ELSE <<>>

\* WeeklySheetParser._is_valid_service_type
is_valid_service_type(value) == StrUpper(value) \in {"SL", "SD", "P"}

(***************************************************************************)
(* Grid parser: ExcelDeliveryRow, structure detection, the two variants    *)
(***************************************************************************)
\* The dataclass fields of ExcelDeliveryRow; week_start_date has a default.
ExcelDeliveryRow_FIELDS ==
    {"day", "slot", "variety", "suburb", "service_type", "sqm_sold", "pallets",
     "week_start_date"}
ExcelDeliveryRow_REQUIRED == ExcelDeliveryRow_FIELDS \ {"week_start_date"}

\* ExcelDeliveryRow(**kwargs): the generated __init__ raises TypeError on a
\* keyword that is not a field, or when a field without default is missing.
ExcelDeliveryRow(kwargs) ==
    IF DOMAIN kwargs \subseteq ExcelDeliveryRow_FIELDS
       /\ ExcelDeliveryRow_REQUIRED \subseteq DOMAIN kwargs
    THEN Ok([day |-> kwargs.day, slot |-> kwargs.slot, variety |-> kwargs.variety,
             suburb |-> kwargs.suburb, service_type |-> kwargs.service_type,
             sqm_sold |-> kwargs.sqm_sold, pallets |-> kwargs.pallets,
             week_start_date |-> IF "week_start_date" \in DOMAIN kwargs
                                 THEN kwargs.week_start_date ELSE NoResult])
    ELSE Raise("TypeError")

TruckKeys == {"Truck 1", "Truck 2"}
EmptyParse == [t \in TruckKeys |-> <<>>]

\* An except clause that keeps the row it could not construct, as a record of
\* what was read, instead of dropping it.
ParseDataRow_KeepFailed(result, truck, day, slot, row) ==
    LET variety == safe_str(CellOrNone(row, 1), "")
        suburb == safe_str(CellOrNone(row, 2), "")
        service_type == StrUpper(safe_str(CellOrNone(row, 3), ""))
        sqm_sold == safe_float(CellOrNone(row, 4), 0)
        pallets == safe_float(CellOrNone(row, 5), 0)
        delivery_fee == safe_float(CellOrNone(row, 8), 0)
        laying_fee == safe_float(CellOrNone(row, 9), 0)
        ps == safe_str(CellOrNone(row, 15), "")
        payment_status == IF ps = "" THEN None ELSE ps
        st == IF service_type = "" \/ ~is_valid_service_type(service_type)
              THEN "SD" ELSE service_type
        made == ExcelDeliveryRow(
                    [day |-> day, slot |-> slot[1],
                     variety |-> IF variety # "" THEN variety ELSE "Unknown",
                     suburb |-> IF suburb # "" THEN suburb ELSE "Unknown",
                     service_type |-> st, sqm_sold |-> sqm_sold, pallets |-> pallets,
                     delivery_fee |-> delivery_fee, laying_fee |-> laying_fee,
                     payment_status |-> payment_status])
    IN  IF sqm_sold <= 0 THEN [result |-> result, counted |-> FALSE]
        ELSE IF IsOk(made)
             THEN [result |-> [result EXCEPT ![truck] = Append(@, made.ok)],
                   counted |-> TRUE]
             ELSE [result |-> [result EXCEPT ![truck] =
                                  Append(@, [day |-> day, slot |-> slot[1],
                                             sqm_sold |-> sqm_sold, error |-> made.exc])],
                   counted |-> TRUE]

\* The try-block shared by both variants from the field extraction on: the
\* row's fields are coerced, a row without SQM is skipped, the service type is
\* defaulted and the record is constructed and appended to the truck's list.
\* `slot` is a one-element sequence <<n>> (slot-first), or <<>> when the slot is
\* numbered after the SQM check (day-first).  Returns [result, counted]:
\* `counted` tells that the row passed the SQM check.
ParseDataRow(result, truck, day, slot, row) ==
    LET variety == safe_str(CellOrNone(row, 1), "")
        suburb == safe_str(CellOrNone(row, 2), "")
        service_type == StrUpper(safe_str(CellOrNone(row, 3), ""))
        sqm_sold == safe_float(CellOrNone(row, 4), 0)
        pallets == safe_float(CellOrNone(row, 5), 0)
        delivery_fee == safe_float(CellOrNone(row, 8), 0)
        laying_fee == safe_float(CellOrNone(row, 9), 0)
        ps == safe_str(CellOrNone(row, 15), "")
        payment_status == IF ps = "" THEN None ELSE ps
        st == IF service_type = "" \/ ~is_valid_service_type(service_type)
              THEN "SD" ELSE service_type
        made == ExcelDeliveryRow(
                    [day |-> day, slot |-> slot[1],
                     variety |-> IF variety # "" THEN variety ELSE "Unknown",
                     suburb |-> IF suburb # "" THEN suburb ELSE "Unknown",
                     service_type |-> st, sqm_sold |-> sqm_sold, pallets |-> pallets,
                     delivery_fee |-> delivery_fee, laying_fee |-> laying_fee,
                     payment_status |-> payment_status])
    IN  IF sqm_sold <= 0 THEN [result |-> result, counted |-> FALSE]
        ELSE IF IsOk(made)
             THEN [result |-> [result EXCEPT ![truck] = Append(@, made.ok)],
                   counted |-> TRUE]
             ELSE [result |-> result, counted |-> TRUE]

RECURSIVE SlotFirstLoop(_, _, _)
\* A loop body whose day header keeps the truck and the data section of the
\* day before.
SlotFirstRow_KeepTruck(st, row) ==
    IF Len(row) = 0 THEN st
    ELSE IF is_day_header(row) # <<>>
    THEN [st EXCEPT !.current_day = is_day_header(row)]
    ELSE IF is_truck_header(row) # <<>>
    THEN [st EXCEPT !.current_truck = is_truck_header(row), !.in_data_section = FALSE]
    ELSE IF st.current_truck # <<>> /\ Len(row) >= 2
            /\ StrLower(safe_str(row[1], "")) = "slot"
    THEN [st EXCEPT !.in_data_section = TRUE]
    ELSE IF StrLower(safe_str(row[1], "")) = "totals"
    THEN [st EXCEPT !.in_data_section = FALSE]
    ELSE IF st.in_data_section /\ st.current_day # <<>> /\ st.current_truck # <<>>
            /\ is_slot_row(row)
    THEN [st EXCEPT !.result =
              ParseDataRow(st.result, st.current_truck[1], st.current_day[1],
                           <<safe_int(row[1], 0)>>, row).result]
    ELSE st

\* One iteration of the loop of _parse_slot_first_structure.
SlotFirstRow(st, row) ==
    IF Len(row) = 0 THEN st
    ELSE IF is_day_header(row) # <<>>
    THEN [st EXCEPT !.current_day = is_day_header(row), !.current_truck = <<>>,
                    !.in_data_section = FALSE]
    ELSE IF is_truck_header(row) # <<>>
    THEN [st EXCEPT !.current_truck = is_truck_header(row), !.in_data_section = FALSE]
    ELSE IF st.current_truck # <<>> /\ Len(row) >= 2
            /\ StrLower(safe_str(row[1], "")) = "slot"
    THEN [st EXCEPT !.in_data_section = TRUE]
    ELSE IF StrLower(safe_str(row[1], "")) = "totals"
    THEN [st EXCEPT !.in_data_section = FALSE]
    ELSE IF st.in_data_section /\ st.current_day # <<>> /\ st.current_truck # <<>>
            /\ is_slot_row(row)
    THEN [st EXCEPT !.result =
              ParseDataRow(st.result, st.current_truck[1], st.current_day[1],
                           <<safe_int(row[1], 0)>>, row).result]
    ELSE st

SlotFirstLoop(st, grid, i) ==
    IF i > Len(grid) THEN st ELSE SlotFirstLoop(SlotFirstRow(st, grid[i]), grid, i + 1)

\* WeeklySheetParser._parse_slot_first_structure
parse_slot_first_structure(grid) ==
    SlotFirstLoop([current_day |-> <<>>, current_truck |-> <<>>,
                   in_data_section |-> FALSE, result |-> EmptyParse], grid, 1).result

DayNames == {VALID_DAYS[i] : i \in 1..Len(VALID_DAYS)}

\* One iteration of the loop of _parse_day_first_structure.  The slot counter
\* is advanced before the record is constructed.
DayFirstRow(st, row) ==
    IF Len(row) = 0 THEN st
    ELSE IF is_truck_header(row) # <<>>
    THEN [st EXCEPT !.current_truck = is_truck_header(row), !.in_data_section = TRUE,
                    !.slot_counter = [d \in DayNames |-> 0]]
    ELSE LET first_cell == StrLower(safe_str(row[1], "")) IN
    IF first_cell \in {"day", "slot", ""} THEN st
    ELSE IF first_cell = "totals" THEN [st EXCEPT !.in_data_section = FALSE]
    ELSE IF is_day_data_row(row) # <<>> /\ st.current_truck # <<>> /\ st.in_data_section
    THEN LET day_name == is_day_data_row(row)[1]
             slot == st.slot_counter[day_name] + 1
             got == ParseDataRow(st.result, st.current_truck[1], day_name, <<slot>>, row)
         IN  IF got.counted
             THEN [st EXCEPT !.slot_counter[day_name] = slot, !.result = got.result]
             ELSE st
    ELSE st

RECURSIVE DayFirstLoop(_, _, _)
DayFirstLoop(st, grid, i) ==
    IF i > Len(grid) THEN st ELSE DayFirstLoop(DayFirstRow(st, grid[i]), grid, i + 1)

\* WeeklySheetParser._parse_day_first_structure
parse_day_first_structure(grid) ==
    DayFirstLoop([current_truck |-> <<>>, in_data_section |-> FALSE,
                  slot_counter |-> [d \in DayNames |-> 0], result |-> EmptyParse],
                 grid, 1).result

\* WeeklySheetParser._detect_structure
RECURSIVE detect_structure_from(_, _)
detect_structure_from(grid, i) ==
    IF i > Len(grid) THEN "slot_first"
    ELSE LET row == grid[i] IN
    IF Len(row) = 0 \/ ~Truthy(row[1]) THEN detect_structure_from(grid, i + 1)
    ELSE LET cell == StrStrip(row[1])
             n == PyInt(cell)
         IN
    IF StrUpper(cell) \in {"TRUCK 1", "TRUCK 2", "SLOT", "DAY", "TOTALS", ""}
    THEN detect_structure_from(grid, i + 1)
    ELSE IF \E p \in {"monday -", "tuesday -", "wednesday -", "thursday -", "friday -"} :
                StartsWith(StrLower(cell), p)
    THEN detect_structure_from(grid, i + 1)
    ELSE IF IsOk(n) /\ 1 <= n.ok /\ n.ok <= 6 THEN "slot_first"
    ELSE IF is_day_value(cell) # <<>> THEN "day_first"
    ELSE detect_structure_from(grid, i + 1)

\* A detection that answers day_first as soon as any row of the grid begins
\* with a day name, day headers included.
detect_structure_AnyDayRow(grid) ==
    IF \E i \in 1..Len(grid) :
           Len(grid[i]) > 0 /\ Truthy(grid[i][1]) /\ is_day_value(grid[i][1]) # <<>>
    THEN "day_first" ELSE "slot_first"

detect_structure(grid) == detect_structure_from(grid, 1)

\* A parser with memory: a call made after another call has returned reports
\* the rows of the grid as the records of Truck 1 instead of parsing them.
parse_weekly_sheet_Remembering(grid) ==
    IF parseResult = NoResult
    THEN IF Len(grid) = 0 THEN EmptyParse
         ELSE IF detect_structure(grid) = "day_first" THEN parse_day_first_structure(grid)
         ELSE parse_slot_first_structure(grid)
    ELSE [EmptyParse EXCEPT !["Truck 1"] = grid]

\* WeeklySheetParser.parse_weekly_sheet
parse_weekly_sheet(grid) ==
    IF Len(grid) = 0 THEN EmptyParse
    ELSE IF detect_structure(grid) = "day_first" THEN parse_day_first_structure(grid)
    ELSE parse_slot_first_structure(grid)

\* The rows the model's grids are built from.
RowAlphabet ==
    { <<>>,
      <<"Monday - Daily Turf Deliveries">>,
      <<"Tuesday - Daily Turf Deliveries">>,
      <<"TRUCK 1">>,
      <<"Truck 2">>,
      <<"Slot", "Variety", "Suburb", "Service Type", "SQM Sold", "Pallets">>,
      <<"Day", "Variety", "Suburb", "Service Type", "SQM Sold", "Pallets">>,
      <<" Totals ", "", "", "", "150", "3">>,
      <<"1", "Empire Zoysia", "Pimpama", "SL", "100", "2">>,
      <<"1", "Sir Walter", "Coomera", "sd", "50", "1">>,
      <<"2", "Sir Walter", "Coomera", "sd", " 100 ", "2">>,
      <<"2">>,
      <<"7", "Empire Zoysia", "Pimpama", "SL", "100", "2">>,
      <<"Monday", "Empire Zoysia", "Pimpama", "SL", "100", "2">>,
      <<"Tuesday", "Sir Walter", "Coomera", "P", "50", "1">> }

MaxRows == 4

ParseIdle ==
    values = <<>> /\ structure = None /\ parseResult = NoResult /\ parseAgain = NoResult

InitParse ==
    values = <<>> /\ structure = None /\ parseResult = NoResult /\ parseAgain = NoResult

\* The Sheets API delivers the next row of the fetched range.
FetchRow ==
    /\ parseResult = NoResult
    /\ Len(values) < MaxRows
    /\ \E row \in RowAlphabet : values' = Append(values, row)
    /\ UNCHANGED <<structure, parseResult, parseAgain>>

\* parse_weekly_sheet(values); the structure is detected in a grid with rows.
ParseWeeklySheet ==
    /\ parseResult = NoResult
    /\ parseResult' = Ok(parse_weekly_sheet(values))
    /\ structure' = IF Len(values) = 0 THEN None ELSE detect_structure(values)
    /\ UNCHANGED <<values, parseAgain>>

\* A second call of parse_weekly_sheet on the same grid.
ParseWeeklySheetAgain ==
    /\ parseResult # NoResult
    /\ parseAgain = NoResult
    /\ parseAgain' = Ok(parse_weekly_sheet(values))
    /\ UNCHANGED <<values, structure, parseResult>>

(***************************************************************************)
(* Flat truck worksheets: ExcelParser.parse_rows, laying_cost, to_delivery *)
(***************************************************************************)
\* float(s) of a quantity cell, in hundredths of a unit.
PyFloatHundredths(s) ==
    CASE s = "100" -> Ok(10000)
      [] s = "33.35" -> Ok(3335)
      [] s = "12.5" -> Ok(1250)
      [] s = "0.25" -> Ok(25)
      [] s = "0" -> Ok(0)
      [] s = "1" -> Ok(100)
      [] s = "2" -> Ok(200)
      [] s = "50" -> Ok(5000)
      [] s = "220" -> Ok(22000)
      [] OTHER -> Raise("ValueError")

\* ExcelParser._safe_float, with the default 0.0
Excel_safe_float(value) ==
    IF value = None \/ value = "" THEN 0
    ELSE LET r == PyFloatHundredths(value) IN IF IsOk(r) THEN r.ok ELSE 0

\* ExcelParser._safe_int, with the default 0: int(float(value)) truncates.
Excel_safe_int(value) ==
    IF value = None \/ value = "" THEN 0
    ELSE LET r == PyFloatHundredths(value) IN IF IsOk(r) THEN r.ok \div 100 ELSE 0

\* ExcelParser._safe_str, with the default ''
Excel_safe_str(value) == IF value = None THEN "" ELSE StrStrip(value)

\* ExcelParser._is_valid_service_type
Excel_is_valid_service_type(value) == StrUpper(value) \in {"SL", "SD", "P"}

\* 'total' in s or 'weekly' in s or 'daily' in s, on lower-cased first cells.
HasSummaryWord(s) ==
    s \in {"totals", "weekly total", "monday - daily turf deliveries"}

\* ExcelParser._is_header_or_summary_row
Excel_is_header_or_summary_row(row) ==
    IF Len(row) = 0 THEN FALSE
    ELSE LET first_cell == StrStrip(StrLower(row[1]))
         IN  \/ first_cell \in {"day", "date", "slot", "variety", "suburb", "#", ""}
             \/ HasSummaryWord(first_cell)

\* ExcelParser._is_empty_row
Excel_is_empty_row(row) ==
    Len(row) = 0 \/ \A i \in 1..Len(row) : row[i] = None \/ StrStrip(row[i]) = ""

\* excel_parser.LAYING_COST_PER_SQM = 2.20, in cents per square metre.
LAYING_COST_PER_SQM == 220

\* The laying cost charged whatever the service type.
laying_cost_AnyService(self) ==
    (self.sqm_sold * LAYING_COST_PER_SQM + 50) \div 100

\* ExcelDeliveryRow.laying_cost, in cents: round(sqm_sold * 2.20, 2) for SL and
\* 0.0 otherwise.  sqm_sold is in hundredths of a square metre, so the product
\* is sqm_sold * 220 hundredths of a cent; it is never half a cent away from
\* a whole number of cents (220 * n % 100 is a multiple of 20), so rounding
\* to the nearest cent is all that round(.., 2) does.
laying_cost(self) ==
    IF self.service_type = "SL"
    THEN (self.sqm_sold * LAYING_COST_PER_SQM + 50) \div 100
    ELSE 0

\* models.schedule.Delivery(**kwargs): the field constraints are validated and
\* the fields that are not given take their defaults.
Delivery(kwargs) ==
    IF /\ kwargs.sqm > 0
       /\ kwargs.pallets >= 0
       /\ kwargs.service_type \in {"SL", "SD", "P"}
       /\ kwargs.laying_cost >= 0
    THEN Ok([sqm |-> kwargs.sqm, pallets |-> kwargs.pallets,
             variety |-> kwargs.variety, suburb |-> kwargs.suburb,
             service_type |-> kwargs.service_type,
             laying_cost |-> kwargs.laying_cost,
             payment_status |-> None, delivery_fee |-> 0, laying_fee |-> 0])
    ELSE Raise("ValidationError")

\* ExcelDeliveryRow.to_delivery
to_delivery(self) ==
    Delivery([sqm |-> self.sqm_sold, pallets |-> self.pallets,
              variety |-> self.variety, suburb |-> self.suburb,
              service_type |-> self.service_type,
              laying_cost |-> laying_cost(self)])

\* The body of the loop of ExcelParser.parse_rows for one row: the rows parsed
\* so far, extended by the row's record unless the row is skipped.
Excel_parse_row(parsed_rows, row) ==
    IF Excel_is_empty_row(row) \/ Excel_is_header_or_summary_row(row)
    THEN parsed_rows
    ELSE LET day == Excel_safe_str(CellOrNone(row, 0))
             slot == Excel_safe_int(CellOrNone(row, 1))
             variety == Excel_safe_str(CellOrNone(row, 2))
             suburb == Excel_safe_str(CellOrNone(row, 3))
             service_cell == StrUpper(Excel_safe_str(CellOrNone(row, 4)))
             sqm_sold == Excel_safe_float(CellOrNone(row, 5))
             pallets == Excel_safe_float(CellOrNone(row, 6))
             service_type ==
                 IF service_cell # "" /\ ~Excel_is_valid_service_type(service_cell)
                 THEN "SD"
                 ELSE IF service_cell = "" THEN "SD" ELSE service_cell
             delivery_row ==
                 ExcelDeliveryRow([day |-> day, slot |-> slot, variety |-> variety,
                                   suburb |-> suburb, service_type |-> service_type,
                                   sqm_sold |-> sqm_sold, pallets |-> pallets])
         IN  IF sqm_sold <= 0 THEN parsed_rows
             ELSE IF variety = "" /\ suburb = "" THEN parsed_rows
             ELSE IF IsOk(delivery_row) THEN Append(parsed_rows, delivery_row.ok)
             ELSE parsed_rows

RECURSIVE Excel_parse_from(_, _, _)
Excel_parse_from(parsed_rows, grid, i) ==
    IF i > Len(grid) THEN parsed_rows
    ELSE Excel_parse_from(Excel_parse_row(parsed_rows, grid[i]), grid, i + 1)

\* ExcelParser.parse_rows with skip_header=True
parse_rows(grid) ==
    IF Len(grid) = 0 THEN <<>> ELSE Excel_parse_from(<<>>, grid, 2)

\* The deliveries of a flat worksheet: to_delivery of every parsed row.
DeliveriesOf(grid) ==
    LET rows == parse_rows(grid) IN [i \in 1..Len(rows) |-> to_delivery(rows[i])]

FlatHeaderRow ==
    <<"Day", "Slot", "Variety", "Suburb", "Service", "SQM", "Pallets", "H",
      "Delivery Fee", "Laying Fee">>

\* Data rows of a flat truck worksheet: day, slot, variety, suburb, service
\* type, SQM, pallets and the financial columns H, I, J.
FlatRows ==
    { <<"Monday", "1", "Sir Walter", "Pimpama", service, sqm, "2", "", fee, lay>> :
        service \in {"SL", "SD", "P", "sd", "abc", ""},
        sqm \in {"100", "33.35", "12.5", "0.25", "0"},
        fee \in {"", "50"}, lay \in {"", "220"} }
    \cup { <<"Monday", "1", "", "", "SL", "100", "2">>,
           <<"Totals", "", "", "", "SL", "100", "2">>,
           <<"", "", "">> }

MaxFlatRows == 2

CostIdle == flatValues = <<>> /\ deliveries = NoResult

InitCost == flatValues = <<FlatHeaderRow>> /\ deliveries = NoResult

\* The Graph API delivers the next row of the truck worksheet.
FetchFlatRow ==
    /\ deliveries = NoResult
    /\ Len(flatValues) < MaxFlatRows
    /\ \E row \in FlatRows : flatValues' = Append(flatValues, row)
    /\ UNCHANGED deliveries

\* The worksheet is parsed and every parsed row converted to a Delivery.
ParseRows ==
    /\ deliveries = NoResult
    /\ deliveries' = Ok(DeliveriesOf(flatValues))
    /\ UNCHANGED flatValues

(***************************************************************************)
(* Schedule builder: deliveries grouped by the business day they fall on   *)
(***************************************************************************)
\* get_next_business_days, as the list it returns when no date overflows.
RECURSIVE NextBusinessDaysLoop(_, _, _)
NextBusinessDaysLoop(business_days, day, count) ==
    IF Len(business_days) < count
    THEN NextBusinessDaysLoop(IF Weekday(day) < 5 THEN Append(business_days, day)
                                                  ELSE business_days,
                              DatePlusDays(day, 1), count)
    ELSE business_days
get_next_business_days(start_date, count) == NextBusinessDaysLoop(<<>>, start_date, count)

\* excel_parser.DAY_TO_WEEKDAY
DAY_TO_WEEKDAY ==
    [d \in {"Monday", "Tuesday", "Wednesday", "Thursday", "Friday"} |->
        CASE d = "Monday" -> 0 [] d = "Tuesday" -> 1 [] d = "Wednesday" -> 2
          [] d = "Thursday" -> 3 [] d = "Friday" -> 4]

\* ExcelDeliveryRow.get_actual_date
get_actual_date(self) ==
    IF self.week_start_date = PyNone THEN PyNone
    ELSE IF self.day \notin DOMAIN DAY_TO_WEEKDAY THEN PyNone
    ELSE DatePlusDays(self.week_start_date, DAY_TO_WEEKDAY[self.day])

\* "w2" in s or "week 2" in s or "week2" in s, and s with the week indicator
\* removed and stripped, on the lower-cased day strings of the model.
HasWeekTwoIndicator(s) == s \in {"monday w2", "fri week 2"}
RemoveWeekIndicator(s) ==
    CASE s = "monday w2" -> "monday"
      [] s = "fri week 2" -> "fri"
      [] OTHER -> s
\* s[:3]
FirstThree(s) ==
    CASE s = "monday" -> "mon"
      [] s = "tuesday" -> "tue"
      [] s = "friday" -> "fri"
      [] s = "saturday" -> "sat"
      [] s = "holiday" -> "hol"
      [] OTHER -> s
\* s.split()[0].title()
FirstWordTitle(s) ==
    CASE s = "Monday W2" -> "Monday"
      [] s = "Fri Week 2" -> "Fri"
      [] OTHER -> s

\* normalize_day_name.day_map
day_map ==
    [k \in {"mon", "tue", "wed", "thu", "fri", "sat", "sun"} |->
        CASE k = "mon" -> "Monday" [] k = "tue" -> "Tuesday" [] k = "wed" -> "Wednesday"
          [] k = "thu" -> "Thursday" [] k = "fri" -> "Friday" [] k = "sat" -> "Saturday"
          [] k = "sun" -> "Sunday"]

\* schedule_builder.normalize_day_name: the normalized day name and the week
normalize_day_name(day_name) ==
    IF ~Truthy(day_name) THEN <<"", 1>>
    ELSE LET lowered == StrStrip(StrLower(day_name))
             week == IF HasWeekTwoIndicator(lowered) THEN 2 ELSE 1
             day_lower == IF HasWeekTwoIndicator(lowered)
                          THEN RemoveWeekIndicator(lowered) ELSE lowered
             short == FirstThree(day_lower)
         IN  IF short \in DOMAIN day_map THEN <<day_map[short], week>>
             ELSE <<FirstWordTitle(day_name), week>>

\* day_to_dates[day_name]: the business days of that name, in their order.
DatesForDay(business_days, day_name) ==
    SelectSeq(business_days, LAMBDA d : Strftime_A(d) = day_name)
DateSet(business_days) == {business_days[i] : i \in 1..Len(business_days)}
RECURSIVE GroupFrom(_, _, _, _)

\* The legacy path puts every record on the first date of its day name.
GroupDelivery_FirstOccurrence(buckets, delivery, business_days) ==
    LET actual_date == get_actual_date(delivery) IN
    IF actual_date # PyNone
    THEN IF actual_date \in DateSet(business_days)
         THEN [buckets EXCEPT ![actual_date] = Append(@, delivery)]
         ELSE buckets
    ELSE LET dates_for_day == DatesForDay(business_days, normalize_day_name(delivery.day)[1])
         IN  IF Len(dates_for_day) > 0
             THEN [buckets EXCEPT ![dates_for_day[1]] = Append(@, delivery)]
             ELSE buckets

\* The body of the loop over the deliveries in _group_deliveries_by_date.
GroupDelivery(buckets, delivery, business_days) ==
    LET actual_date == get_actual_date(delivery) IN
    IF actual_date # PyNone
    THEN IF actual_date \in DateSet(business_days)
         THEN [buckets EXCEPT ![actual_date] = Append(@, delivery)]
         ELSE buckets
    ELSE LET normalized == normalize_day_name(delivery.day)
             dates_for_day == DatesForDay(business_days, normalized[1])
             week_index == normalized[2] - 1
         IN  IF Len(dates_for_day) > 0
             THEN IF week_index < Len(dates_for_day)
                  THEN [buckets EXCEPT ![dates_for_day[week_index + 1]] = Append(@, delivery)]
                  ELSE [buckets EXCEPT ![dates_for_day[1]] = Append(@, delivery)]
             ELSE buckets

GroupFrom(buckets, rows, i, business_days) ==
    IF i > Len(rows) THEN buckets
    ELSE GroupFrom(GroupDelivery(buckets, rows[i], business_days), rows, i + 1,
                   business_days)

\* ScheduleBuilder._group_deliveries_by_date
group_deliveries_by_date(rows, business_days) ==
    GroupFrom([d \in DateSet(business_days) |-> <<>>], rows, 1, business_days)

\* The windows: build_schedule's ten business days from each day of a week
\* on, and three business days.  The records: rows of the week sheets of
\* the window or of the weeks around it, with their week start or without
\* one, and rows of a flat worksheet, whose day is the cell as typed.  The
\* slot tells the records of a list apart.
MaxDeliveries == 2
GroupWindows ==
    {get_next_business_days(DatePlusDays(Date(2026, 1, 5), i), n) :
        i \in 0..6, n \in {3, 10}}
WeekStarts ==
    {Date(2025, 12, 29), Date(2026, 1, 5), Date(2026, 1, 12), Date(2026, 1, 19), PyNone}
GroupRows ==
    [day : {"Monday", "Friday"}, week_start_date : WeekStarts]
        \cup [day : {"Monday W2", "Mon", "Fri Week 2", "Saturday", "Holiday", ""},
              week_start_date : {PyNone}]
GroupInputs(n) ==
    {[i \in 1..n |-> [day |-> f[i].day, slot |-> i,
                       week_start_date |-> f[i].week_start_date]] :
        f \in [1..n -> GroupRows]}

GroupIdle == groupDays = <<>> /\ groupDeliveries = <<>> /\ grouped = NoResult

InitGroup ==
    /\ groupDays \in GroupWindows
    /\ groupDeliveries \in UNION {GroupInputs(n) : n \in 0..MaxDeliveries}
    /\ grouped = NoResult

GroupDeliveriesByDate ==
    /\ grouped = NoResult
    /\ grouped' = Ok(group_deliveries_by_date(groupDeliveries, groupDays))
    /\ UNCHANGED <<groupDays, groupDeliveries>>

(***************************************************************************)
(* The spreadsheet, the shared weekly-sheet cache and the delivery writes  *)
(***************************************************************************)
\* TurfDeliveryService.COLUMNS: the sixteen columns A..P of a delivery row.
SheetColumns ==
    <<"A", "B", "C", "D", "E", "F", "G", "H", "I", "J", "K", "L", "M", "N", "O", "P">>
ColumnIndex(column) == CHOOSE i \in 1..Len(SheetColumns) : SheetColumns[i] = column
EDITABLE_COLUMNS == {"B", "C", "D", "E", "I", "J", "P"}

\* A stored row has one string per column ('' for an empty cell).
RowOf(cells) ==
    [i \in 1..Len(SheetColumns) |-> IF i <= Len(cells) THEN cells[i] ELSE ""]
BlankRow == RowOf(<<>>)

\* A weekly tab as the layout comment of TurfDeliveryService describes it: the
\* day header in row 1, the truck header in row 3, the column headers in row 4
\* and the slots from row 5.  Slot 1 is free, slot 2 is taken.
WeekTemplate ==
    << RowOf(<<"Monday - Daily Turf Deliveries">>),
       BlankRow,
       RowOf(<<"TRUCK 1">>),
       RowOf(<<"Slot", "Variety", "Suburb", "Service Type", "SQM Sold", "Pallets">>),
       RowOf(<<"1">>),
       RowOf(<<"2", "Sir Walter", "Coomera", "SD", "50", "1">>) >>
MasterTemplate ==
    << RowOf(<<"Monday - Daily Turf Deliveries">>),
       BlankRow,
       RowOf(<<"TRUCK 1">>),
       RowOf(<<"Slot", "Variety", "Suburb", "Service Type", "SQM Sold", "Pallets">>),
       RowOf(<<"1", "Empire Zoysia", "Pimpama", "SL", "100", "2">>),
       RowOf(<<"2">>) >>

\* ^(Jan|...|Dec)-\d{2}$
WeekTabTitles ==
    {MonthAbbr[m] \o "-" \o Digit[a + 1] \o Digit[b + 1] : m \in 1..12, a \in 0..9, b \in 0..9}

\* TurfDeliveryService.get_available_weeks (only membership is ever asked)
get_available_weeks == {title \in DOMAIN sheets : title \in WeekTabTitles}

\* The range "A:G" of GoogleSheetsClient.get_worksheet_data covers 7 columns.
FetchedColumns == 7

\* values().get(...): rows up to the last non-empty one, each without its
\* trailing empty cells.
TrimRow(cells) ==
    LET filled == {i \in 1..FetchedColumns : cells[i] # ""}
        last == IF filled = {} THEN 0 ELSE CHOOSE i \in filled : \A j \in filled : j <= i
    IN  SubSeq(cells, 1, last)
WorksheetValues(grid) ==
    LET filled == {r \in 1..Len(grid) : TrimRow(grid[r]) # <<>>}
        last == IF filled = {} THEN 0 ELSE CHOOSE r \in filled : \A q \in filled : q <= r
    IN  [r \in 1..last |-> TrimRow(grid[r])]

\* GoogleSheetsClient.get_worksheet_data; apiDown: the request itself fails.
get_worksheet_data(sheet_name, apiDown) ==
    IF apiDown THEN Raise("GoogleSheetsAPIError")
    ELSE IF sheet_name \notin DOMAIN sheets THEN Raise("GoogleSheetsNotFoundError")
    ELSE Ok(WorksheetValues(sheets[sheet_name]))

\* settings.graph_cache_ttl_seconds
graph_cache_ttl_seconds == 300

\* CacheEntry.__init__
CacheEntry(data, clock) ==
    [data |-> data, created_at |-> clock, ttl_seconds |-> graph_cache_ttl_seconds]
\* An entry that is still served at the very second its TTL has elapsed.
is_expired_Late(entry, clock) == (clock - entry.created_at) > entry.ttl_seconds
\* CacheEntry.is_expired
is_expired(entry, clock) == (clock - entry.created_at) >= entry.ttl_seconds

EmptyCache == [k \in {} |-> NoResult]
CacheWithout(c, key) == [k \in DOMAIN c \ {key} |-> c[k]]
CacheWith(c, key, entry) == [k \in DOMAIN c \cup {key} |-> IF k = key THEN entry ELSE c[k]]

\* One key for every sheet, the template's.
get_cache_key_Master(sheet_name) == "gsheets:weekly:" \o "MASTER"
\* GoogleSheetsService._get_cache_key
get_cache_key(sheet_name) == "gsheets:weekly:" \o sheet_name

\* GoogleSheetsService._get_from_cache: the data of a live entry; an expired
\* entry is deleted.  Gives the value returned and the cache left behind.
get_from_cache(c, key, clock) ==
    IF key \in DOMAIN c /\ ~is_expired(c[key], clock)
    THEN [value |-> Ok(c[key].data), cache |-> c]
    ELSE IF key \in DOMAIN c
    THEN [value |-> NoResult, cache |-> CacheWithout(c, key)]
    ELSE [value |-> NoResult, cache |-> c]

\* GoogleSheetsService._set_cache
set_cache(c, key, data, clock) == CacheWith(c, key, CacheEntry(data, clock))

\* What a handler leaves behind: its response, the spreadsheet, whether it
\* cleared the cache, and how many of its updates the spreadsheet took.
Success == [success |-> TRUE]
Failure(error_code) == [success |-> FALSE, error_code |-> error_code]
\* What a handler did: its response, the spreadsheet it leaves, whether it
\* reached clear_cache(), the updates it committed and the requests it sent to
\* the spreadsheet service.
Outcome(response, tabs, cleared, commits, calls) ==
    [response |-> response, sheets |-> tabs, cleared |-> cleared, commits |-> commits,
     calls |-> calls]

\* values().update(range=<column><row>:..., body={"values": [cells]})
UpdateRange(grid, row_number, first_column, cells) ==
    LET f == ColumnIndex(first_column)
    IN  [grid EXCEPT ![row_number] =
            [i \in 1..Len(SheetColumns) |->
                IF i >= f /\ i < f + Len(cells) THEN cells[i - f + 1] ELSE @[i]]]

\* An update that returns without clearing the cache.
update_delivery_field_KeepCache(week_tab, row_number, column, value, failAt) ==
    IF column \notin EDITABLE_COLUMNS THEN Outcome(Failure(400), sheets, FALSE, 0, 0)
    ELSE IF failAt = 1 THEN Outcome(Failure(500), sheets, FALSE, 0, 1)
    ELSE IF week_tab \notin get_available_weeks THEN Outcome(Failure(404), sheets, FALSE, 0, 1)
    ELSE IF failAt = 2 THEN Outcome(Failure(500), sheets, FALSE, 0, 2)
    ELSE Outcome(Success,
                 [sheets EXCEPT ![week_tab] = UpdateRange(@, row_number, column, <<value>>)],
                 FALSE, 1, 2)

\* TurfDeliveryService.update_delivery_field.  failAt numbers the API request
\* that raises (0: none): 1 the tab listing, 2 the update.
update_delivery_field(week_tab, row_number, column, value, failAt) ==
    IF column \notin EDITABLE_COLUMNS THEN Outcome(Failure(400), sheets, FALSE, 0, 0)
    ELSE IF failAt = 1 THEN Outcome(Failure(500), sheets, FALSE, 0, 1)
    ELSE IF week_tab \notin get_available_weeks THEN Outcome(Failure(404), sheets, FALSE, 0, 1)
    ELSE IF failAt = 2 THEN Outcome(Failure(500), sheets, FALSE, 0, 2)
    ELSE Outcome(Success,
                 [sheets EXCEPT ![week_tab] = UpdateRange(@, row_number, column, <<value>>)],
                 TRUE, 1, 2)

\* TurfDeliveryService.create_delivery.  failAt: 1 the tab listing, 2 the
\* occupancy read, 3 the update of A:E, 4 the update of I:J.
create_delivery(week_tab, day, truck, slot, variety, suburb, service_type, sqm_sold, delivery_fee, laying_fee, failAt) ==
    IF day \notin Turf_DAYS THEN Outcome(Failure(400), sheets, FALSE, 0, 0)
    ELSE IF truck \notin Turf_TRUCKS THEN Outcome(Failure(400), sheets, FALSE, 0, 0)
    ELSE IF slot < 1 \/ slot > SLOTS_PER_TRUCK THEN Outcome(Failure(400), sheets, FALSE, 0, 0)
    ELSE
    LET row_number == Turf_calculate_row_number(day, truck, slot).ok
        existing_variety == sheets[week_tab][row_number][ColumnIndex("B")]
        row_values == <<Digit[slot + 1], variety, suburb, service_type, sqm_sold>>
        fee_values == <<delivery_fee, laying_fee>>
        written == [sheets EXCEPT ![week_tab] = UpdateRange(@, row_number, "A", row_values)]
        withFees == [written EXCEPT ![week_tab] = UpdateRange(@, row_number, "I", fee_values)]
    IN  IF failAt = 1 THEN Outcome(Failure(500), sheets, FALSE, 0, 1)
        ELSE IF week_tab \notin get_available_weeks THEN Outcome(Failure(404), sheets, FALSE, 0, 1)
        ELSE IF failAt = 2 THEN Outcome(Failure(500), sheets, FALSE, 0, 2)
        ELSE IF Truthy(existing_variety) /\ Truthy(StrStrip(existing_variety))
             THEN Outcome(Failure(409), sheets, FALSE, 0, 2)
        ELSE IF failAt = 3 THEN Outcome(Failure(500), sheets, FALSE, 0, 3)
        ELSE IF Truthy(delivery_fee) \/ Truthy(laying_fee)
             THEN IF failAt = 4 THEN Outcome(Failure(500), written, FALSE, 1, 4)
                  ELSE Outcome(Success, withFees, TRUE, 2, 4)
        ELSE Outcome(Success, written, TRUE, 1, 3)

\* TurfDeliveryService.delete_delivery.  row_number and slot are optional
\* (NoResult when omitted); failAt: 1 the tab listing, 2 the update of B:P.
delete_delivery(week_tab, row_number, day, truck, slot, failAt) ==
    LET byCoordinate == row_number = NoResult
        empty_row == [i \in 1..15 |-> ""]
        target == IF byCoordinate THEN Turf_calculate_row_number(day, truck, slot.ok).ok
                  ELSE row_number.ok
    IN  IF byCoordinate /\ (~Truthy(day) \/ ~Truthy(truck) \/ slot = NoResult)
        THEN Outcome(Failure(400), sheets, FALSE, 0, 0)
        ELSE IF byCoordinate /\ day \notin Turf_DAYS THEN Outcome(Failure(400), sheets, FALSE, 0, 0)
        ELSE IF byCoordinate /\ truck \notin Turf_TRUCKS THEN Outcome(Failure(400), sheets, FALSE, 0, 0)
        ELSE IF byCoordinate /\ (slot.ok < 1 \/ slot.ok > SLOTS_PER_TRUCK)
             THEN Outcome(Failure(400), sheets, FALSE, 0, 0)
        ELSE IF failAt = 1 THEN Outcome(Failure(500), sheets, FALSE, 0, 1)
        ELSE IF week_tab \notin get_available_weeks THEN Outcome(Failure(404), sheets, FALSE, 0, 1)
        ELSE IF failAt = 2 THEN Outcome(Failure(500), sheets, FALSE, 0, 2)
        ELSE Outcome(Success,
                     [sheets EXCEPT ![week_tab] = UpdateRange(@, target, "B", empty_row)],
                     TRUE, 1, 2)

\* SalesService.EDITABLE_COLUMNS
Sales_EDITABLE_COLUMNS == {"F", "G", "H", "J", "K", "L"}

\* A handler that sends the update whatever the column.
update_appointment_field_Unchecked(week_tab, row_number, column, value, failAt) ==
    IF failAt = 1 \/ week_tab \notin DOMAIN salesSheets
    THEN Outcome([success |-> FALSE], salesSheets, FALSE, 0, 1)
    ELSE Outcome(Success,
                 [salesSheets EXCEPT ![week_tab] =
                     UpdateRange(@, row_number, StrUpper(column), <<value>>)],
                 FALSE, 1, 1)

\* SalesService.update_appointment_field: the column is upper-cased and
\* looked up in EDITABLE_COLUMNS before the service is obtained; the one
\* request is the update (failAt = 1: it raises, as it does for a tab the
\* spreadsheet does not have).  The handler has no cache to clear, and its
\* failures carry no error_code.
update_appointment_field(week_tab, row_number, column, value, failAt) ==
    IF StrUpper(column) \notin Sales_EDITABLE_COLUMNS
    THEN Outcome([success |-> FALSE], salesSheets, FALSE, 0, 0)
    ELSE IF failAt = 1 \/ week_tab \notin DOMAIN salesSheets
    THEN Outcome([success |-> FALSE], salesSheets, FALSE, 0, 1)
    ELSE Outcome(Success,
                 [salesSheets EXCEPT ![week_tab] =
                     UpdateRange(@, row_number, StrUpper(column), <<value>>)],
                 FALSE, 1, 1)

\* Requests the clients send.
RequestTabs == {"Jan-05", "Jan-12"}
UpdateRequests ==
    [week_tab : RequestTabs, row_number : {5}, column : {"B", "F"},
     value : {"", "Sir Walter"}]
AppointmentUpdateRequests ==
    [week_tab : {"Jan-05", "Jan-12"}, row_number : {5}, column : {"F", "f", "A", "M"},
     value : {"Yes"}]
CreateArgs(week_tab, day, truck, slot, variety, delivery_fee) ==
    [week_tab |-> week_tab, day |-> day, truck |-> truck, slot |-> slot,
     variety |-> variety, suburb |-> "Pimpama", service_type |-> "SL",
     sqm_sold |-> "100", delivery_fee |-> delivery_fee, laying_fee |-> ""]
CreateRequests ==
    {CreateArgs(t, "Monday", "TRUCK 1", s, v, f) :
        t \in RequestTabs, s \in {1, 2}, v \in {"", "Sir Walter"}, f \in {"", "50"}}
    \cup {CreateArgs("Jan-05", "Sunday", "TRUCK 1", 1, "Sir Walter", ""),
          CreateArgs("Jan-05", "Monday", "TRUCK 3", 1, "Sir Walter", ""),
          CreateArgs("Jan-05", "Monday", "TRUCK 1", 0, "Sir Walter", ""),
          CreateArgs("Jan-05", "Monday", "TRUCK 1", 7, "Sir Walter", "")}
DeleteArgs(week_tab, row_number, day, truck, slot) ==
    [week_tab |-> week_tab, row_number |-> row_number, day |-> day,
     truck |-> truck, slot |-> slot]
DeleteRequests ==
    {DeleteArgs(t, Ok(6), None, None, NoResult) : t \in RequestTabs}
    \cup {DeleteArgs("Jan-05", NoResult, "Monday", "TRUCK 1", Ok(s)) : s \in {0, 2, 7}}
    \cup {DeleteArgs("Jan-05", NoResult, None, "TRUCK 1", Ok(2)),
          DeleteArgs("Jan-05", NoResult, "Monday", "TRUCK 1", NoResult),
          DeleteArgs("Jan-05", NoResult, "Sunday", "TRUCK 1", Ok(2)),
          DeleteArgs("Jan-05", NoResult, "Monday", "TRUCK 3", Ok(2))}

\* A week tab of the appointment spreadsheet: the day header in row 1 and the
\* first slot of the first rep in row 5, set but not yet confirmed.
SalesWeekTemplate ==
    << RowOf(<<"Monday">>), BlankRow, BlankRow, BlankRow,
       RowOf(<<"1", "Ann", "Google", "Yes">>) >>

MaxOps == 3
TickSeconds == 150
MaxClock == 300

WriteIdle ==
    /\ sheets = EmptyCache /\ salesSheets = EmptyCache
    /\ cache = EmptyCache /\ storedAt = EmptyCache
    /\ now = 0 /\ opSeq = 0 /\ lastOp = NoResult /\ lastRead = NoResult

\* The spreadsheet has the week tab of 2026-01-05 and, usually, a MASTER tab;
\* the service starts with an empty cache.
InitWrite ==
    /\ sheets \in { [t \in {"Jan-05", "MASTER"} |->
                        IF t = "MASTER" THEN MasterTemplate ELSE WeekTemplate],
                    [t \in {"Jan-05"} |-> WeekTemplate] }
    /\ salesSheets = [t \in {"Jan-05"} |-> SalesWeekTemplate]
    /\ cache = EmptyCache /\ storedAt = EmptyCache
    /\ now = 0 /\ opSeq = 0 /\ lastOp = NoResult /\ lastRead = NoResult

\* A handler has run to its return: the spreadsheet holds what it committed,
\* clear_cache() has emptied the cache if the handler reached it.
Returned(op, column, out) ==
    /\ IF op = "update_appointment_field"
       THEN salesSheets' = out.sheets /\ UNCHANGED sheets
       ELSE sheets' = out.sheets /\ UNCHANGED salesSheets
    /\ cache' = IF out.cleared THEN EmptyCache ELSE cache
    /\ storedAt' = IF out.cleared THEN EmptyCache ELSE storedAt
    /\ opSeq' = opSeq + 1
    /\ lastOp' = [op |-> op, column |-> column, response |-> out.response,
                  commits |-> out.commits, calls |-> out.calls, at |-> opSeq + 1]
    /\ UNCHANGED <<now, lastRead>>

UpdateDeliveryField ==
    /\ opSeq < MaxOps
    /\ \E r \in UpdateRequests, failAt \in 0..2 :
          Returned("update_delivery_field", r.column,
                   update_delivery_field(r.week_tab, r.row_number, r.column, r.value, failAt))

CreateDelivery ==
    /\ opSeq < MaxOps
    /\ \E r \in CreateRequests, failAt \in 0..4 :
          Returned("create_delivery", None,
                   create_delivery(r.week_tab, r.day, r.truck, r.slot, r.variety, r.suburb,
                                   r.service_type, r.sqm_sold, r.delivery_fee,
                                   r.laying_fee, failAt))

UpdateAppointmentField ==
    /\ opSeq < MaxOps
    /\ \E r \in AppointmentUpdateRequests, failAt \in 0..1 :
          Returned("update_appointment_field", r.column,
                   update_appointment_field(r.week_tab, r.row_number, r.column, r.value,
                                            failAt))

DeleteDelivery ==
    /\ opSeq < MaxOps
    /\ \E r \in DeleteRequests, failAt \in 0..2 :
          Returned("delete_delivery", None,
                   delete_delivery(r.week_tab, r.row_number, r.day, r.truck, r.slot, failAt))

\* GoogleSheetsService.get_weekly_sheet_data, with the MASTER fallback.
GetWeeklySheetData ==
    /\ opSeq < MaxOps
    /\ \E sheet_name \in RequestTabs, down \in SUBSET {1, 2} :
        LET cache_key == get_cache_key(sheet_name)
            cached == get_from_cache(cache, cache_key, now)
            first == get_worksheet_data(sheet_name, 1 \in down)
            fetched == IF first = Raise("GoogleSheetsNotFoundError")
                       THEN get_worksheet_data("MASTER", 2 \in down)
                       ELSE first
        IN  /\ opSeq' = opSeq + 1
            /\ IF cached.value # NoResult
               THEN /\ lastRead' = [sheet_name |-> sheet_name, result |-> cached.value,
                                    at |-> opSeq + 1, hit |-> TRUE]
                    /\ UNCHANGED <<cache, storedAt>>
               ELSE IF IsOk(fetched)
               THEN LET parsed_data == parse_weekly_sheet(fetched.ok)
                    IN  /\ cache' = set_cache(cached.cache, cache_key, parsed_data, now)
                        /\ storedAt' = CacheWith([k \in DOMAIN cached.cache |-> storedAt[k]],
                                                 cache_key, opSeq + 1)
                        /\ lastRead' = [sheet_name |-> sheet_name, result |-> Ok(parsed_data),
                                        at |-> opSeq + 1, hit |-> FALSE]
               ELSE /\ cache' = cached.cache
                    /\ storedAt' = [k \in DOMAIN cached.cache |-> storedAt[k]]
                    /\ lastRead' = [sheet_name |-> sheet_name, result |-> fetched,
                                    at |-> opSeq + 1, hit |-> FALSE]
    /\ UNCHANGED <<sheets, salesSheets, now, lastOp>>

\* Time passes between requests.
Tick ==
    /\ now + TickSeconds <= MaxClock
    /\ now' = now + TickSeconds
    /\ UNCHANGED <<sheets, salesSheets, cache, storedAt, opSeq, lastOp, lastRead>>

(***************************************************************************)
(* Appointment aggregation (SalesService)                                  *)
(***************************************************************************)
LEAD_SOURCES == <<"Google", "Facebook", "Referral", "Vehicles", "Word of Mouth", "Other">>
LeadSourceSet == {LEAD_SOURCES[i] : i \in 1..Len(LEAD_SOURCES)}

\* SalesService.COLUMNS (0-based indices of the columns A..M)
Sales_COLUMNS ==
    [slot |-> 0, lead_name |-> 1, lead_source |-> 2, appointment_set |-> 3,
     appointment_confirmed |-> 4, appointment_attended |-> 5, job_sold |-> 6,
     reason |-> 7, conversion |-> 8, sell_price |-> 9, appointment_time |-> 10,
     project_type |-> 11, suburb |-> 12]

\* SalesService.parse_boolean, on the strings safe_get hands it
Sales_parse_boolean(value) == StrLower(StrStrip(value)) = "yes"

\* SalesService.parse_currency, in whole dollars
Sales_parse_currency(value) ==
    LET cleaned == StripCurrency(StrStrip(value))
        r == PyFloat(cleaned)
    IN  IF cleaned # "" /\ IsOk(r) THEN r.ok ELSE 0

\* round(numerator / denominator * 100, 1), in tenths of a percent; a tie goes
\* to the even tenth.
RoundPercent(numerator, denominator) ==
    LET scaled == 1000 * numerator
        q == scaled \div denominator
        rest == scaled - q * denominator
    IN  IF 2 * rest > denominator THEN q + 1
        ELSE IF 2 * rest = denominator THEN q + (q % 2)
        ELSE q

\* (numerator / denominator) * 100 rounded to one decimal: the division raises
\* when the denominator is zero.
PercentOf(numerator, denominator) ==
    IF denominator = 0 THEN Raise("ZeroDivisionError")
    ELSE Ok(RoundPercent(numerator, denominator))

\* Mutant: the rate is computed without looking at the denominator.
ConversionRate_Unguarded(sold, attended) == PercentOf(sold, attended)

\* The conversion rate as every appointment view computes it: the division is
\* made only when somebody attended, otherwise the rate is 0.0.
ConversionRate(sold, attended) ==
    IF attended > 0 THEN PercentOf(sold, attended) ELSE Ok(0)

\* values().get(range 'tab'!A<first>:M<last>): the rows of the range up to the
\* last filled one, an unfilled row in between being an empty list.
RangeRows(grid, first, last) ==
    LET filled == {r \in DOMAIN grid : first <= r /\ r <= last}
        lastFilled == IF filled = {} THEN first - 1
                      ELSE CHOOSE r \in filled : \A q \in filled : q <= r
    IN  [i \in 1..(lastFilled - first + 1) |->
            IF (first + i - 1) \in filled THEN grid[first + i - 1] ELSE <<>>]

\* A local variable: Body applied to the value, which is computed once.
Bind(value, Body(_)) == CHOOSE result \in {Body(v) : v \in {value}} : TRUE

ZeroWeek ==
    [totals |-> [appointments_set |-> 0, appointments_confirmed |-> 0,
                 in_homes_attended |-> 0, jobs_sold |-> 0, weekly_sales_total |-> 0],
     by_rep |-> [rep \in SALES_REPS |->
                    [appointments_set |-> 0, appointments_confirmed |-> 0,
                     in_homes_attended |-> 0, jobs_sold |-> 0, sales_total |-> 0]],
     by_day |-> [day \in Sales_DAYS |-> [attended |-> 0, sold |-> 0]],
     lead_source_counts |-> [source \in LeadSourceSet |-> 0]]

\* Mutant: every set appointment outside the enumeration goes to "Other",
\* the empty lead source included.
CountLeadSource_AlwaysOther(counts, lead_source) ==
    IF lead_source \in DOMAIN counts
    THEN [counts EXCEPT ![lead_source] = @ + 1]
    ELSE [counts EXCEPT !["Other"] = @ + 1]

\* get_weekly_stats, "Count lead source"
CountLeadSource(counts, lead_source) ==
    IF lead_source \in DOMAIN counts
    THEN [counts EXCEPT ![lead_source] = @ + 1]
    ELSE IF Truthy(lead_source)
    THEN [counts EXCEPT !["Other"] = @ + 1]
    ELSE counts

\* The body of the slot loop of get_weekly_stats for one coordinate.
WeeklyFoldSlot(acc, all_rows, c) ==
    LET row_idx == Sales_calculate_row_number(c.day, c.rep, c.slot).ok - 1
    IN  IF ~(row_idx < Len(all_rows)) THEN acc
        ELSE
        LET row == all_rows[row_idx + 1]
            safe_get(idx) == IF idx < Len(row) /\ Truthy(row[idx + 1]) THEN row[idx + 1] ELSE ""
            is_set == Sales_parse_boolean(safe_get(Sales_COLUMNS.appointment_set))
            is_confirmed == Sales_parse_boolean(safe_get(Sales_COLUMNS.appointment_confirmed))
            is_attended == Sales_parse_boolean(safe_get(Sales_COLUMNS.appointment_attended))
            is_sold == Sales_parse_boolean(safe_get(Sales_COLUMNS.job_sold))
            lead_source == safe_get(Sales_COLUMNS.lead_source)
            sell_price == Sales_parse_currency(safe_get(Sales_COLUMNS.sell_price))
            a1 == IF is_set
                  THEN [acc EXCEPT !.totals.appointments_set = @ + 1,
                                   !.by_rep[c.rep].appointments_set = @ + 1,
                                   !.lead_source_counts = CountLeadSource(@, lead_source)]
                  ELSE acc
            a2 == IF is_confirmed
                  THEN [a1 EXCEPT !.totals.appointments_confirmed = @ + 1,
                                  !.by_rep[c.rep].appointments_confirmed = @ + 1]
                  ELSE a1
            a3 == IF is_attended
                  THEN [a2 EXCEPT !.totals.in_homes_attended = @ + 1,
                                  !.by_rep[c.rep].in_homes_attended = @ + 1,
                                  !.by_day[c.day].attended = @ + 1]
                  ELSE a2
        IN  IF is_sold
            THEN [a3 EXCEPT !.totals.jobs_sold = @ + 1,
                            !.by_rep[c.rep].jobs_sold = @ + 1,
                            !.by_day[c.day].sold = @ + 1,
                            !.totals.weekly_sales_total = @ + sell_price,
                            !.by_rep[c.rep].sales_total = @ + sell_price]
            ELSE a3

\* for slot in range(1, num_slots + 1)
RECURSIVE WeeklyFoldSlots(_, _, _, _, _)
WeeklyFoldSlots(acc, all_rows, day, rep, slot) ==
    IF slot > DictGet(SLOTS_PER_DAY, day, 5) THEN acc
    ELSE Bind(WeeklyFoldSlot(acc, all_rows, [day |-> day, rep |-> rep, slot |-> slot]),
              LAMBDA next : WeeklyFoldSlots(next, all_rows, day, rep, slot + 1))

\* for rep in SALES_REPS
RECURSIVE WeeklyFoldReps(_, _, _, _)
WeeklyFoldReps(acc, all_rows, day, r) ==
    IF r > Len(SALES_REPS_SEQ) THEN acc
    ELSE Bind(WeeklyFoldSlots(acc, all_rows, day, SALES_REPS_SEQ[r], 1),
              LAMBDA next : WeeklyFoldReps(next, all_rows, day, r + 1))

\* for day in DAYS
RECURSIVE WeeklyFold(_, _, _)
WeeklyFold(acc, all_rows, d) ==
    IF d > Len(Sales_DAYS_SEQ) THEN acc
    ELSE Bind(WeeklyFoldReps(acc, all_rows, Sales_DAYS_SEQ[d], 1),
              LAMBDA next : WeeklyFold(next, all_rows, d + 1))

\* by_lead_source.sort(key=count, reverse=True): a stable sort, largest first.
RECURSIVE SortByCountDesc(_)
SortByCountDesc(items) ==
    IF items = <<>> THEN <<>>
    ELSE LET best == CHOOSE i \in 1..Len(items) :
                        /\ \A j \in 1..Len(items) : items[j].count <= items[i].count
                        /\ \A j \in 1..(i - 1) : items[j].count < items[i].count
         IN  <<items[best]>> \o
             Bind([k \in 1..(Len(items) - 1) |-> IF k < best THEN items[k] ELSE items[k + 1]],
                  LAMBDA rest : SortByCountDesc(rest))

StatsFailure(error) == [success |-> FALSE, error |-> error]

\* The end of get_weekly_stats: rates, shares, then the response.
\* available_weeks and week_display are left out.
WeekResponse(week_tab, acc) ==
    LET rate == ConversionRate(acc.totals.jobs_sold, acc.totals.in_homes_attended)
        repRate == [rep \in SALES_REPS |->
                       ConversionRate(acc.by_rep[rep].jobs_sold,
                                      acc.by_rep[rep].in_homes_attended)]
        total_set == acc.totals.appointments_set
        share == [source \in LeadSourceSet |->
                     IF total_set > 0 THEN PercentOf(acc.lead_source_counts[source], total_set)
                     ELSE Ok(0)]
    IN  IF IsRaise(rate) \/ \E rep \in SALES_REPS : IsRaise(repRate[rep])
        THEN StatsFailure("ZeroDivisionError")
        ELSE [success |-> TRUE, view |-> "week", week |-> week_tab,
              totals |-> [appointments_set |-> acc.totals.appointments_set,
                          appointments_confirmed |-> acc.totals.appointments_confirmed,
                          in_homes_attended |-> acc.totals.in_homes_attended,
                          jobs_sold |-> acc.totals.jobs_sold,
                          weekly_sales_total |-> acc.totals.weekly_sales_total,
                          conversion_rate |-> rate.ok],
              by_rep |-> [i \in 1..Len(SALES_REPS_SEQ) |->
                            LET rep == SALES_REPS_SEQ[i]
                            IN  [name |-> rep,
                                 appointments_set |-> acc.by_rep[rep].appointments_set,
                                 appointments_confirmed |-> acc.by_rep[rep].appointments_confirmed,
                                 in_homes_attended |-> acc.by_rep[rep].in_homes_attended,
                                 jobs_sold |-> acc.by_rep[rep].jobs_sold,
                                 sales_total |-> acc.by_rep[rep].sales_total,
                                 conversion_rate |-> repRate[rep].ok]],
              by_lead_source |->
                  Bind([i \in 1..Len(LEAD_SOURCES) |->
                           [source |-> LEAD_SOURCES[i],
                            count |-> acc.lead_source_counts[LEAD_SOURCES[i]],
                            percentage |-> share[LEAD_SOURCES[i]].ok]],
                       LAMBDA items : SortByCountDesc(items)),
              by_day |-> [i \in 1..Len(Sales_DAYS_SEQ) |->
                            [day |-> Sales_DAYS_SEQ[i],
                             attended |-> acc.by_day[Sales_DAYS_SEQ[i]].attended,
                             sold |-> acc.by_day[Sales_DAYS_SEQ[i]].sold]]]

\* SalesService.get_weekly_stats; apiDown: the read of the tab raises (the tab
\* is missing or the request fails).
get_weekly_stats(week_tab, apiDown) ==
    IF apiDown \/ week_tab \notin DOMAIN apptSheets THEN StatsFailure("HttpError")
    ELSE Bind(RangeRows(apptSheets[week_tab], 1, 180),
              LAMBDA all_rows :
                  Bind(WeeklyFold(ZeroWeek, all_rows, 1),
                       LAMBDA acc : WeekResponse(week_tab, acc)))

\* "Jan-05".split("-") and the months table: month number and day of a tab
\* title, for the titles the spreadsheets of the model carry.
ModelTabDays == {2, 5, 12, 19, 29}
TabMonthDay(title) ==
    LET parts == {p \in (1..12) \X ModelTabDays :
                     title = MonthAbbr[p[1]] \o "-" \o Digit[(p[2] \div 10) + 1]
                                 \o Digit[(p[2] % 10) + 1]}
    IN  IF parts = {} THEN Raise("ValueError") ELSE Ok(CHOOSE p \in parts : TRUE)

\* week_dates.sort(key=date, reverse=True)
RECURSIVE SortByDateDesc(_)
SortByDateDesc(pairs) ==
    IF pairs = {} THEN <<>>
    ELSE LET latest == CHOOSE p \in pairs : \A q \in pairs : q.ordinal <= p.ordinal
         IN  <<latest.title>> \o SortByDateDesc(pairs \ {latest})

\* SalesService.get_available_weeks: the week tabs dated 2026-01-05 or later
\* (December tabs are dated 2025), latest first; [] when the listing fails.
Sales_get_available_weeks(listingDown) ==
    IF listingDown THEN <<>>
    ELSE
    LET dated == {t \in DOMAIN apptSheets : t \in WeekTabTitles /\ IsOk(TabMonthDay(t))}
        tabDate(t) == LET md == TabMonthDay(t).ok
                      IN  Date(IF md[1] = 12 THEN 2025 ELSE 2026, md[1], md[2])
        cutoff_date == Date(2026, 1, 5)
    IN  SortByDateDesc({[ordinal |-> ToOrdinal(tabDate(t)), title |-> t] :
                           t \in {u \in dated : ToOrdinal(tabDate(u)) >= ToOrdinal(cutoff_date)}})

SeqToSet(s) == {s[i] : i \in 1..Len(s)}
RECURSIVE SelectSeq2(_, _)
SelectSeq2(s, keep) ==
    IF s = <<>> THEN <<>>
    ELSE (IF Head(s) \in keep THEN <<Head(s)>> ELSE <<>>) \o SelectSeq2(Tail(s), keep)

\* SalesService.get_day_name
Sales_get_day_name(target_date) ==
    IF Weekday(target_date) <= 5 THEN Sales_DAYS_SEQ[Weekday(target_date) + 1] ELSE None

\* The end of get_daily_stats: the day's figures out of the week's.
DayResponse(week_tab, day_name, week_result) ==
    LET matches == {i \in 1..Len(week_result.by_day) : week_result.by_day[i].day = day_name}
        day_data == IF matches = {} THEN [attended |-> 0, sold |-> 0]
                    ELSE week_result.by_day[CHOOSE i \in matches : \A j \in matches : i <= j]
        rate == ConversionRate(day_data.sold, day_data.attended)
    IN  IF ~week_result.success THEN week_result
        ELSE IF IsRaise(rate) THEN StatsFailure("ZeroDivisionError")
        ELSE [success |-> TRUE, view |-> "day", week |-> week_tab,
              totals |-> [appointments_set |-> 0, appointments_confirmed |-> 0,
                          in_homes_attended |-> day_data.attended,
                          jobs_sold |-> day_data.sold,
                          conversion_rate |-> rate.ok],
              by_rep |-> week_result.by_rep,
              by_lead_source |-> week_result.by_lead_source,
              by_day |-> <<day_data>>]

\* SalesService.get_daily_stats
get_daily_stats(target_date, down) ==
    IF Weekday(target_date) = 6 THEN StatsFailure("No appointments on Sundays")
    ELSE LET week_tab == Sales_get_week_tab_name(target_date)
         IN  Bind(get_weekly_stats(week_tab, week_tab \in down),
                  LAMBDA week_result :
                      DayResponse(week_tab, Sales_get_day_name(target_date), week_result))

\* "2026-01".split("-") mapped through int
MonthKey(month_str) ==
    CASE month_str = "2026-01" -> Ok(<<2026, 1>>)
      [] month_str = "2026-02" -> Ok(<<2026, 2>>)
      [] OTHER -> Raise("ValueError")

\* The tabs get_monthly_stats keeps: the Monday is in the month, or it is in
\* the month before and the Friday is in the month.
WeekInMonth(week_tab, year, month) ==
    LET md == TabMonthDay(week_tab)
        week_month == md.ok[1]
        week_day == md.ok[2]
        monday == Date(IF week_month <= month THEN year ELSE year - 1, week_month, week_day)
        friday == DatePlusDays(monday, 4)
    IN  /\ IsOk(md)
        /\ \/ week_month = month
           \/ /\ (week_month = month - 1 \/ (month = 1 /\ week_month = 12))
              /\ week_day <= DaysInMonth(monday.year, week_month)
              /\ friday.month = month

ZeroPeriod ==
    [totals |-> [appointments_set |-> 0, appointments_confirmed |-> 0,
                 in_homes_attended |-> 0, jobs_sold |-> 0, weekly_sales_total |-> 0],
     by_rep |-> [rep \in SALES_REPS |->
                    [appointments_set |-> 0, appointments_confirmed |-> 0,
                     in_homes_attended |-> 0, jobs_sold |-> 0]]]

\* Mutant: a week's figures replace the running totals instead of adding to them.
AddWeek_Overwrite(agg, week_stats) ==
    [totals |-> [f \in DOMAIN agg.totals |-> week_stats.totals[f]],
     by_rep |-> agg.by_rep]

\* The body of the week loop of get_monthly_stats / get_annual_stats for one
\* successful week.
AddWeek(agg, week_stats) ==
    [totals |-> [f \in DOMAIN agg.totals |-> agg.totals[f] + week_stats.totals[f]],
     by_rep |-> [rep \in SALES_REPS |->
                    LET found == {i \in 1..Len(week_stats.by_rep) :
                                     week_stats.by_rep[i].name = rep}
                    IN  IF found = {} THEN agg.by_rep[rep]
                        ELSE LET rep_data == week_stats.by_rep[CHOOSE i \in found : TRUE]
                             IN  [f \in DOMAIN agg.by_rep[rep] |->
                                     agg.by_rep[rep][f] + rep_data[f]]]]

RECURSIVE AddWeeks(_, _, _)
AddWeeks(agg, weeks, down) ==
    IF weeks = <<>> THEN agg
    ELSE Bind(get_weekly_stats(Head(weeks), Head(weeks) \in down),
              LAMBDA week_stats :
                  Bind(IF week_stats.success THEN AddWeek(agg, week_stats) ELSE agg,
                       LAMBDA next : AddWeeks(next, Tail(weeks), down)))

\* The end of get_monthly_stats / get_annual_stats: rates, then the response.
PeriodResponse(view, agg) ==
    LET rate == ConversionRate(agg.totals.jobs_sold, agg.totals.in_homes_attended)
        repRate == [rep \in SALES_REPS |->
                       ConversionRate(agg.by_rep[rep].jobs_sold,
                                      agg.by_rep[rep].in_homes_attended)]
    IN  IF IsRaise(rate) \/ \E rep \in SALES_REPS : IsRaise(repRate[rep])
        THEN StatsFailure("ZeroDivisionError")
        ELSE [success |-> TRUE, view |-> view,
              totals |-> [appointments_set |-> agg.totals.appointments_set,
                          appointments_confirmed |-> agg.totals.appointments_confirmed,
                          in_homes_attended |-> agg.totals.in_homes_attended,
                          jobs_sold |-> agg.totals.jobs_sold,
                          weekly_sales_total |-> agg.totals.weekly_sales_total,
                          conversion_rate |-> rate.ok],
              by_rep |-> [i \in 1..Len(SALES_REPS_SEQ) |->
                            LET rep == SALES_REPS_SEQ[i]
                            IN  [name |-> rep,
                                 appointments_set |-> agg.by_rep[rep].appointments_set,
                                 appointments_confirmed |-> agg.by_rep[rep].appointments_confirmed,
                                 in_homes_attended |-> agg.by_rep[rep].in_homes_attended,
                                 jobs_sold |-> agg.by_rep[rep].jobs_sold,
                                 conversion_rate |-> repRate[rep].ok]],
              by_lead_source |-> <<>>,
              by_day |-> <<>>]

\* SalesService.get_monthly_stats
get_monthly_stats(month_str, down) ==
    LET key == MonthKey(month_str)
        available_weeks == Sales_get_available_weeks("listing" \in down)
        weeks_in_month == SelectSeq2(available_weeks,
                             {t \in SeqToSet(available_weeks) :
                                 WeekInMonth(t, key.ok[1], key.ok[2])})
    IN  IF IsRaise(key) THEN StatsFailure("ValueError")
        ELSE Bind(weeks_in_month,
                  LAMBDA weeks :
                      Bind(AddWeeks(ZeroPeriod, weeks, down),
                           LAMBDA agg :
                               LET response == PeriodResponse("month", agg)
                               IN  IF response.success
                                   THEN response @@ [weeks_included |-> weeks]
                                   ELSE response))

\* int(year_str)
YearKey(year_str) ==
    CASE year_str = "2026" -> Ok(2026)
      [] OTHER -> Raise("ValueError")

\* SalesService.get_annual_stats: every available week, whatever the year.
get_annual_stats(year_str, down) ==
    LET available_weeks == Sales_get_available_weeks("listing" \in down)
    IN  IF IsRaise(YearKey(year_str)) THEN StatsFailure("ValueError")
        ELSE Bind(AddWeeks(ZeroPeriod, available_weeks, down),
                  LAMBDA agg : PeriodResponse("annual", agg))

\* SalesService._parse_row_to_appointment
parse_row_to_appointment(row, slot, row_number) ==
    LET safe_get(idx) == IF idx < Len(row) THEN row[idx + 1] ELSE ""
    IN  [slot |-> slot, row_number |-> row_number,
         lead_source |-> safe_get(Sales_COLUMNS.lead_source),
         appointment_set |-> Sales_parse_boolean(safe_get(Sales_COLUMNS.appointment_set)),
         appointment_confirmed |->
             Sales_parse_boolean(safe_get(Sales_COLUMNS.appointment_confirmed)),
         appointment_attended |->
             Sales_parse_boolean(safe_get(Sales_COLUMNS.appointment_attended)),
         job_sold |-> Sales_parse_boolean(safe_get(Sales_COLUMNS.job_sold)),
         sell_price |-> Sales_parse_currency(safe_get(Sales_COLUMNS.sell_price))]

EmptySlot(slot, row_number) ==
    [slot |-> slot, row_number |-> row_number, lead_source |-> "",
     appointment_set |-> FALSE, appointment_confirmed |-> FALSE,
     appointment_attended |-> FALSE, job_sold |-> FALSE, sell_price |-> 0]

\* The end of get_daily_schedule: the day totals, then the response.
ScheduleResponse(week_tab, day_name, reps_data) ==
    LET count(field) ==
            Cardinality({<<i, slot>> \in (1..Len(reps_data)) \X DOMAIN reps_data[1].appointments :
                            reps_data[i].appointments[slot][field]})
        rate == ConversionRate(count("job_sold"), count("appointment_attended"))
    IN  IF IsRaise(rate) THEN StatsFailure("ZeroDivisionError")
        ELSE [success |-> TRUE, view |-> "schedule", day_name |-> day_name,
              week_tab |-> week_tab, reps |-> reps_data,
              day_totals |-> [total_set |-> count("appointment_set"),
                              total_confirmed |-> count("appointment_confirmed"),
                              total_attended |-> count("appointment_attended"),
                              total_sold |-> count("job_sold"),
                              conversion_rate |-> rate.ok]]

\* SalesService.get_daily_schedule (text fields of the appointments left out)
get_daily_schedule(target_date, down) ==
    IF Weekday(target_date) = 6 THEN StatsFailure("No appointments on Sundays")
    ELSE
    LET week_tab == Sales_get_week_tab_name(target_date)
        day_name == Sales_get_day_name(target_date)
        available_weeks == Sales_get_available_weeks("listing" \in down)
        day_start_row == Sales_DAY_HEADER_ROWS[day_name]
        day_end_row == day_start_row + (IF day_name = "Saturday" THEN 20 ELSE 28)
        all_rows == RangeRows(apptSheets[week_tab], day_start_row, day_end_row)
        num_slots == DictGet(SLOTS_PER_DAY, day_name, 5)
        appointment(rep, slot) ==
            LET row_number == Sales_calculate_row_number(day_name, rep, slot).ok
                relative_row == row_number - day_start_row
            IN  IF 0 <= relative_row /\ relative_row < Len(all_rows)
                THEN parse_row_to_appointment(all_rows[relative_row + 1], slot, row_number)
                ELSE EmptySlot(slot, row_number)
    IN  IF week_tab \notin SeqToSet(available_weeks) THEN StatsFailure("Week not found")
        ELSE IF week_tab \in down THEN StatsFailure("HttpError")
        ELSE Bind([i \in 1..Len(SALES_REPS_SEQ) |->
                      [name |-> SALES_REPS_SEQ[i],
                       appointments |-> [slot \in 1..num_slots |->
                                            appointment(SALES_REPS_SEQ[i], slot)]]],
                  LAMBDA reps_data : ScheduleResponse(week_tab, day_name, reps_data))

(***************************************************************************)
(* Delivery aggregation (TurfManagerService); money is counted in cents    *)
(***************************************************************************)
\* TurfManagerService.COLUMNS (0-based indices of the columns A..Q)
Manager_COLUMNS ==
    [day_slot |-> 0, variety |-> 1, suburb |-> 2, service_type |-> 3, sqm |-> 4,
     pallets |-> 5, sell_per_sqm |-> 6, cost_per_sqm |-> 7, delivery_fee |-> 8,
     laying_fee |-> 9, turf_revenue |-> 10, delivery_t1 |-> 11, delivery_t2 |-> 12,
     laying_total |-> 13, total |-> 14, cost |-> 15, margin |-> 16]

\* TurfManagerService.LAYING_COST_PER_SQM = 2.20, in cents
Manager_LAYING_COST_PER_SQM == 220

\* TurfManagerService._parse_float, in whole units
Manager_parse_float(value) ==
    IF value = None \/ value = "" THEN 0
    ELSE LET r == PyFloat(StrStrip(StripCurrency(value)))
         IN  IF IsOk(r) THEN r.ok ELSE 0

Cents(dollars) == 100 * dollars

\* The tabs of the turf spreadsheet in sheet order, each with its rows as
\* get_worksheet_data(tab, "A:Q") returns them.
TabIndex(tabs, title) ==
    LET found == {i \in 1..Len(tabs) : tabs[i].title = title}
    IN  IF found = {} THEN 0 ELSE CHOOSE i \in found : TRUE

\* TurfManagerService._get_week_data: any failure gives no rows.
get_week_data(week_tab, down) ==
    IF week_tab \in down \/ TabIndex(managerSheets, week_tab) = 0 THEN <<>>
    ELSE managerSheets[TabIndex(managerSheets, week_tab)].rows

\* TurfManagerService.get_available_weeks; raises when the listing fails.
Manager_get_available_weeks(down) ==
    IF "listing" \in down THEN Raise("GoogleSheetsAPIError")
    ELSE Ok(SelectSeq2([i \in 1..Len(managerSheets) |-> managerSheets[i].title], WeekTabTitles))

\* TurfDeliveryService.VARIETIES (and core.constants.VALID_TURF_VARIETIES)
VARIETIES ==
    <<"Empire Zoysia", "Sir Walter", "Wintergreen Couch", "AussiBlue Couch",
      "Summerland Buffalo">>

\* The aggregate initialised with a zero entry for every known variety.
ZeroAggregate_EveryVariety ==
    [by_variety |-> [i \in 1..Len(VARIETIES) |->
                        [variety |-> VARIETIES[i], sqm_sold |-> 0, sell_price |-> 0,
                         cost |-> 0]],
     delivery_t1_total |-> 0, delivery_t2_total |-> 0,
     laying_fees_total |-> 0, laying_costs_total |-> 0]

\* The locals of _aggregate_week_data before the loop: variety_stats = {} and
\* the four running totals.
ZeroAggregate ==
    [by_variety |-> <<>>, delivery_t1_total |-> 0, delivery_t2_total |-> 0,
     laying_fees_total |-> 0, laying_costs_total |-> 0]

\* The laying cost charged per delivery instead of per square metre.
LayingCostOf_PerDelivery(sqm) == Manager_LAYING_COST_PER_SQM

\* sqm * LAYING_COST_PER_SQM, for every delivery whatever its service type
LayingCostOf(sqm) == sqm * Manager_LAYING_COST_PER_SQM

\* The body of the row loop of _aggregate_week_data.
AggregateRow(acc, row) ==
    LET cell(idx, default) == IF Len(row) > idx THEN row[idx + 1] ELSE default
        variety == cell(Manager_COLUMNS.variety, "")
        sqm == Manager_parse_float(cell(Manager_COLUMNS.sqm, "0"))
        sell_per_sqm == Manager_parse_float(cell(Manager_COLUMNS.sell_per_sqm, "0"))
        cost_per_sqm == Manager_parse_float(cell(Manager_COLUMNS.cost_per_sqm, "0"))
        laying_fee == Manager_parse_float(cell(Manager_COLUMNS.laying_fee, "0"))
        turf_revenue == Cents(sqm * sell_per_sqm)
        turf_cost == Cents(sqm * cost_per_sqm)
        known == {i \in 1..Len(acc.by_variety) : acc.by_variety[i].variety = variety}
        stats == IF known = {}
                 THEN Append(acc.by_variety,
                             [variety |-> variety, sqm_sold |-> 0, sell_price |-> 0, cost |-> 0])
                 ELSE acc.by_variety
        at == CHOOSE i \in 1..Len(stats) : stats[i].variety = variety
        dt1 == IF Len(row) > Manager_COLUMNS.delivery_t1
               THEN Cents(Manager_parse_float(row[Manager_COLUMNS.delivery_t1 + 1])) ELSE 0
        dt2 == IF Len(row) > Manager_COLUMNS.delivery_t2
               THEN Cents(Manager_parse_float(row[Manager_COLUMNS.delivery_t2 + 1])) ELSE 0
    IN  IF Len(row) < 5 THEN acc
        ELSE IF ~Truthy(variety) \/ StrStrip(variety) = "" THEN acc
        ELSE [by_variety |-> [stats EXCEPT ![at] =
                                 [variety |-> variety,
                                  sqm_sold |-> @.sqm_sold + sqm,
                                  sell_price |-> @.sell_price + turf_revenue,
                                  cost |-> @.cost + turf_cost]],
              delivery_t1_total |-> acc.delivery_t1_total + dt1,
              delivery_t2_total |-> acc.delivery_t2_total + dt2,
              laying_fees_total |-> acc.laying_fees_total + Cents(laying_fee),
              laying_costs_total |-> acc.laying_costs_total + LayingCostOf(sqm)]

RECURSIVE AggregateRows(_, _, _)
AggregateRows(acc, rows, i) ==
    IF i > Len(rows) THEN acc
    ELSE Bind(AggregateRow(acc, rows[i]), LAMBDA next : AggregateRows(next, rows, i + 1))

RECURSIVE SumField(_, _)
SumField(items, field) ==
    IF items = <<>> THEN 0 ELSE Head(items)[field] + SumField(Tail(items), field)

\* The end of _aggregate_week_data: the sums over the varieties and the
\* margin, in tenths of a percent.
AggregateResult(acc) ==
    LET variety_totals == [sqm_sold |-> SumField(acc.by_variety, "sqm_sold"),
                           sell_price |-> SumField(acc.by_variety, "sell_price"),
                           cost |-> SumField(acc.by_variety, "cost")]
        delivery_fees == [truck_1 |-> acc.delivery_t1_total,
                          truck_2 |-> acc.delivery_t2_total,
                          total |-> acc.delivery_t1_total + acc.delivery_t2_total]
        laying == [sales |-> acc.laying_fees_total, costs |-> acc.laying_costs_total]
        total_sales == variety_totals.sell_price + delivery_fees.total + laying.sales
        total_costs == variety_totals.cost + laying.costs
        margin_percent == IF total_sales > 0
                          THEN RoundPercent(total_sales - total_costs, total_sales)
                          ELSE 0
    IN  [by_variety |-> acc.by_variety,
         variety_totals |-> variety_totals,
         delivery_fees |-> delivery_fees,
         laying |-> laying,
         totals |-> [sales |-> total_sales, costs |-> total_costs,
                     margin_percent |-> margin_percent]]

\* TurfManagerService._aggregate_week_data: the first row is skipped as the
\* header.
aggregate_week_data(rows) ==
    Bind(AggregateRows(ZeroAggregate, rows, 2), LAMBDA acc : AggregateResult(acc))

\* strftime("%A")
DayNameOf(target_date) ==
    <<"Monday", "Tuesday", "Wednesday", "Thursday", "Friday", "Saturday", "Sunday">>[
        Weekday(target_date) + 1]

\* " - Daily Turf Deliveries" in cell_value, and cell_value.startswith(day_name)
IsDaySectionHeader(cell_value) ==
    cell_value \in {"Monday - Daily Turf Deliveries", "Tuesday - Daily Turf Deliveries"}

\* The scan of the day view: the rows of the section of day_name, after a
\* placeholder header.
RECURSIVE DayRowsFrom(_, _, _, _)
DayRowsFrom(rows, i, day_name, in_day_section) ==
    IF i > Len(rows) THEN <<>>
    ELSE
    LET row == rows[i]
        cell_value == row[1]
    IN  IF Len(row) = 0 THEN DayRowsFrom(rows, i + 1, day_name, in_day_section)
        ELSE IF IsDaySectionHeader(cell_value)
        THEN IF StartsWith(cell_value, day_name) THEN DayRowsFrom(rows, i + 1, day_name, TRUE)
             ELSE IF in_day_section THEN <<>>
             ELSE DayRowsFrom(rows, i + 1, day_name, in_day_section)
        ELSE IF in_day_section /\ Len(row) >= 5
                /\ Truthy(row[2])
                /\ StrStrip(row[2]) \notin {"", "Variety", "TRUCK 1", "TRUCK 2", "Slot"}
        THEN <<row>> \o DayRowsFrom(rows, i + 1, day_name, in_day_section)
        ELSE DayRowsFrom(rows, i + 1, day_name, in_day_section)

\* rows[1:] if len(rows) > 1 else []
DataRows(rows) == IF Len(rows) > 1 THEN Tail(rows) ELSE <<>>

RECURSIVE ExtendWithWeeks(_, _)
ExtendWithWeeks(weeks, down) ==
    IF weeks = <<>> THEN <<>>
    ELSE DataRows(get_week_data(Head(weeks), down)) \o ExtendWithWeeks(Tail(weeks), down)

\* aggregated = self._aggregate_week_data(rows), then the ManagerStatsResponse
ManagerResponse(view, rows) ==
    Bind(rows,
         LAMBDA data :
             Bind(aggregate_week_data(data),
                  LAMBDA aggregated :
                      Ok([success |-> TRUE, view |-> view,
                          by_variety |-> aggregated.by_variety,
                          variety_totals |-> aggregated.variety_totals,
                          delivery_fees |-> aggregated.delivery_fees,
                          laying |-> aggregated.laying,
                          totals |-> aggregated.totals])))

\* TurfManagerService.get_manager_stats; arg is the date, the tab, the month
\* or the year of the view.  An exception leaves the service (the route turns
\* it into an HTTP error).
get_manager_stats(view, arg, down) ==
    CASE view = "day" ->
            LET rows == get_week_data(TurfManager_get_week_tab_name(arg), down)
            IN  ManagerResponse(view,
                    IF rows = <<>> THEN <<<<"Header">>>>
                    ELSE <<<<"Header">>>> \o DayRowsFrom(rows, 1, DayNameOf(arg), FALSE))
      [] view = "week" ->
            LET rows == get_week_data(arg, down)
            IN  ManagerResponse(view,
                    IF rows = <<>> THEN <<<<"Header">>>> ELSE rows)
      [] view = "month" ->
            LET key == MonthKey(arg)
                available_weeks == Manager_get_available_weeks(down)
                inMonth == {t \in SeqToSet(available_weeks.ok) :
                               IsOk(TabMonthDay(t)) /\ TabMonthDay(t).ok[1] = key.ok[2]}
                month_data == ExtendWithWeeks(SelectSeq2(available_weeks.ok, inMonth), down)
            IN  IF IsRaise(key) THEN Raise("ValueError")
                ELSE IF IsRaise(available_weeks) THEN available_weeks
                ELSE ManagerResponse(view, <<<<"Header">>>> \o month_data)
      [] view = "annual" ->
            LET available_weeks == Manager_get_available_weeks(down)
                annual_data == ExtendWithWeeks(available_weeks.ok, down)
            IN  IF IsRaise(available_weeks) THEN available_weeks
                ELSE ManagerResponse(view, <<<<"Header">>>> \o annual_data)
      [] OTHER -> Raise("ValueError")

(***************************************************************************)
(* The two spreadsheets being filled in, and the statistics requests       *)
(***************************************************************************)
\* What may be entered into the appointment sheet: a slot and its row
\* (columns A..J).
AppointmentEntries ==
    { [day |-> "Monday", rep |-> "GLEN", slot |-> 1,
       row |-> <<"1", "Ann", "Google", "Yes", "Yes", "Yes", "Yes", "", "", "$1,000">>],
      [day |-> "Monday", rep |-> "GLEN", slot |-> 1,
       row |-> <<"1", "Bob", "", "Yes", "", "Yes">>],
      [day |-> "Monday", rep |-> "GLEN", slot |-> 1,
       row |-> <<"1", "Cy", "Instagram", " yes ">>],
      [day |-> "Monday", rep |-> "GREAT REP", slot |-> 2,
       row |-> <<"2", "Dee", "Facebook", "Yes", "Yes", "Yes">>] }
SalesNewTabs == {"Jan-12", "Jan-19"}
SalesRequestTabs == {"Dec-29", "Jan-05", "Jan-12", "Feb-02"}
SalesRequestDates == {Date(2026, 1, 5), Date(2026, 1, 11), Date(2026, 1, 13)}
RequestMonths == {"2026-01", "2026-02", "2026/01"}
DownChoices == {{}, {"Jan-05"}, {"listing"}}

\* Rows of a turf tab (columns A..M), after the column header.
ManagerHeaderRow ==
    <<"Day/Slot", "Variety", "Suburb", "Service Type", "SQM", "Pallets", "Sell $/SQM",
      "Cost $/SQM", "Delivery Fee", "Laying Fee", "Turf Revenue", "Delivery T1",
      "Delivery T2", "Laying Total", "Total", "Cost", "Margin %">>
ManagerRows ==
    { <<"1", "Empire Zoysia", "Pimpama", "SL", "100", "2", "12", "8", "150", "220",
        "1200", "150", "0">>,
      <<"2", "Sir Walter", "Coomera", "SD", "50", "1", "$10", "6", "0", "0", "500",
        "0", "60">>,
      <<"3", "", "Logan">>,
      <<"4", "Sir Walter", "Logan", "P", "10">>,
      <<"Tuesday - Daily Turf Deliveries">> }
MaxManagerRows == 4
ManagerNewTabs == {"Jan-12"}
ManagerRequestTabs == {"Jan-05", "Jan-12", "Feb-02"}

AggIdle ==
    apptSheets = EmptyCache /\ managerSheets = <<>> /\ statsResult = NoResult

\* One of the two spreadsheets has its first tabs, the other has none yet.
InitAgg ==
    /\ statsResult = NoResult
    /\ \/ /\ apptSheets =
                [t \in {"Dec-29", "Jan-05"} |->
                    IF t = "Jan-05" THEN EmptyCache
                    ELSE [r \in {5} |->
                            <<"1", "Ann", "Google", "Yes", "Yes", "Yes", "Yes", "", "", "$1,000">>]]
          /\ managerSheets = <<>>
       \/ /\ apptSheets = EmptyCache
          /\ managerSheets =
                << [title |-> "MASTER", rows |-> <<ManagerHeaderRow>>],
                   [title |-> "Jan-05",
                    rows |-> <<ManagerHeaderRow, <<"Monday - Daily Turf Deliveries">>>>] >>

\* Somebody fills in an appointment slot of a week tab.
EnterAppointment ==
    /\ statsResult = NoResult
    /\ \E tab \in DOMAIN apptSheets \ {"Dec-29"}, c \in AppointmentEntries :
          LET n == Sales_calculate_row_number(c.day, c.rep, c.slot).ok
              grid == apptSheets[tab]
          IN  apptSheets' = [apptSheets EXCEPT ![tab] =
                                [r \in DOMAIN grid \cup {n} |-> IF r = n THEN c.row ELSE grid[r]]]
    /\ UNCHANGED <<managerSheets, statsResult>>

\* Somebody copies a tab under the name of another week.
DuplicateSalesTab ==
    /\ statsResult = NoResult
    /\ \E from \in DOMAIN apptSheets, to \in SalesNewTabs \ DOMAIN apptSheets :
          apptSheets' = [t \in DOMAIN apptSheets \cup {to} |->
                            IF t = to THEN apptSheets[from] ELSE apptSheets[t]]
    /\ UNCHANGED <<managerSheets, statsResult>>

\* Somebody adds a row at the bottom of a turf week tab.
EnterDeliveryRow ==
    /\ statsResult = NoResult
    /\ \E i \in 1..Len(managerSheets), row \in ManagerRows :
          /\ managerSheets[i].title \in WeekTabTitles
          /\ Len(managerSheets[i].rows) < MaxManagerRows
          /\ managerSheets' = [managerSheets EXCEPT ![i].rows = Append(@, row)]
    /\ UNCHANGED <<apptSheets, statsResult>>

\* Somebody copies a turf week tab under the name of another week.
DuplicateManagerTab ==
    /\ statsResult = NoResult
    /\ \E i \in 1..Len(managerSheets), to \in ManagerNewTabs :
          /\ managerSheets[i].title \in WeekTabTitles
          /\ TabIndex(managerSheets, to) = 0
          /\ managerSheets' = Append(managerSheets,
                                     [title |-> to, rows |-> managerSheets[i].rows])
    /\ UNCHANGED <<apptSheets, statsResult>>

Answered(service, view, arg, down, response) ==
    /\ statsResult' = [service |-> service, view |-> view, arg |-> arg, down |-> down,
                       response |-> response]
    /\ UNCHANGED <<apptSheets, managerSheets>>

GetDailySchedule ==
    /\ statsResult = NoResult
    /\ \E target_date \in SalesRequestDates, down \in DownChoices :
          Answered("sales", "schedule", target_date, down,
                   get_daily_schedule(target_date, down))

GetDailyStats ==
    /\ statsResult = NoResult
    /\ \E target_date \in SalesRequestDates, down \in DownChoices :
          Answered("sales", "day", target_date, down, get_daily_stats(target_date, down))

GetWeeklyStats ==
    /\ statsResult = NoResult
    /\ \E week_tab \in SalesRequestTabs, down \in DownChoices :
          Answered("sales", "week", week_tab, down,
                   get_weekly_stats(week_tab, week_tab \in down))

GetMonthlyStats ==
    /\ statsResult = NoResult
    /\ \E month_str \in RequestMonths, down \in DownChoices :
          Answered("sales", "month", month_str, down, get_monthly_stats(month_str, down))

GetAnnualStats ==
    /\ statsResult = NoResult
    /\ \E down \in DownChoices :
          Answered("sales", "annual", "2026", down, get_annual_stats("2026", down))

GetManagerStats ==
    /\ statsResult = NoResult
    /\ \E down \in DownChoices :
          \/ \E target_date \in SalesRequestDates :
                Answered("turf", "day", target_date, down,
                         get_manager_stats("day", target_date, down))
          \/ \E week \in ManagerRequestTabs :
                Answered("turf", "week", week, down, get_manager_stats("week", week, down))
          \/ \E month \in RequestMonths :
                Answered("turf", "month", month, down, get_manager_stats("month", month, down))
          \/ Answered("turf", "annual", "2026", down, get_manager_stats("annual", "2026", down))

(***************************************************************************)
(* Specifications                                                          *)
(***************************************************************************)
NextAddr ==
    \/ TurfAddress /\ UNCHANGED notAddr
    \/ SalesAddress /\ UNCHANGED notAddr
SpecAddrInit == InitAddr /\ DateIdle /\ ParseIdle /\ WriteIdle /\ AggIdle /\ CostIdle
    /\ CoordIdle /\ WeekIdle /\ DaysIdle /\ GroupIdle
SpecAddr == SpecAddrInit /\ [][NextAddr]_vars

NextDate ==
    \/ GetWeekSheetName /\ UNCHANGED notDate
    \/ SalesGetWeekTabName /\ UNCHANGED notDate
    \/ TurfDeliveryGetWeekTabName /\ UNCHANGED notDate
    \/ TurfManagerGetWeekTabName /\ UNCHANGED notDate
SpecDateInit == InitDate /\ AddrIdle /\ ParseIdle /\ WriteIdle /\ AggIdle /\ CostIdle
    /\ CoordIdle /\ WeekIdle /\ DaysIdle /\ GroupIdle
SpecDate == SpecDateInit /\ [][NextDate]_vars

NextParse ==
    \/ FetchRow /\ UNCHANGED notParse
    \/ ParseWeeklySheet /\ UNCHANGED notParse
    \/ ParseWeeklySheetAgain /\ UNCHANGED notParse
SpecParseInit == InitParse /\ AddrIdle /\ DateIdle /\ WriteIdle /\ AggIdle /\ CostIdle
    /\ CoordIdle /\ WeekIdle /\ DaysIdle /\ GroupIdle
SpecParse == SpecParseInit /\ [][NextParse]_vars

NextWrite ==
    \/ UpdateDeliveryField /\ UNCHANGED notWrite
    \/ UpdateAppointmentField /\ UNCHANGED notWrite
    \/ CreateDelivery /\ UNCHANGED notWrite
    \/ DeleteDelivery /\ UNCHANGED notWrite
    \/ GetWeeklySheetData /\ UNCHANGED notWrite
    \/ Tick /\ UNCHANGED notWrite
SpecWriteInit == InitWrite /\ AddrIdle /\ DateIdle /\ ParseIdle /\ AggIdle /\ CostIdle
    /\ CoordIdle /\ WeekIdle /\ DaysIdle /\ GroupIdle
SpecWrite == SpecWriteInit /\ [][NextWrite]_vars

NextAgg ==
    \/ EnterAppointment /\ UNCHANGED notAgg
    \/ DuplicateSalesTab /\ UNCHANGED notAgg
    \/ EnterDeliveryRow /\ UNCHANGED notAgg
    \/ DuplicateManagerTab /\ UNCHANGED notAgg
    \/ GetDailySchedule /\ UNCHANGED notAgg
    \/ GetDailyStats /\ UNCHANGED notAgg
    \/ GetWeeklyStats /\ UNCHANGED notAgg
    \/ GetMonthlyStats /\ UNCHANGED notAgg
    \/ GetAnnualStats /\ UNCHANGED notAgg
    \/ GetManagerStats /\ UNCHANGED notAgg
SpecAggInit == InitAgg /\ AddrIdle /\ DateIdle /\ ParseIdle /\ WriteIdle /\ CostIdle
    /\ CoordIdle /\ WeekIdle /\ DaysIdle /\ GroupIdle
SpecAgg == SpecAggInit /\ [][NextAgg]_vars

NextCost ==
    \/ FetchFlatRow /\ UNCHANGED notCost
    \/ ParseRows /\ UNCHANGED notCost
SpecCostInit ==
    InitCost /\ AddrIdle /\ DateIdle /\ ParseIdle /\ WriteIdle /\ AggIdle /\ CoordIdle
    /\ WeekIdle /\ DaysIdle /\ GroupIdle
SpecCost == SpecCostInit /\ [][NextCost]_vars

NextWeek ==
    \/ GetRequiredWeekSheets /\ UNCHANGED notWeek
    \/ ParseSheetNameToDate /\ UNCHANGED notWeek
SpecWeekInit ==
    InitWeek /\ AddrIdle /\ DateIdle /\ ParseIdle /\ WriteIdle /\ AggIdle /\ CostIdle
    /\ CoordIdle /\ DaysIdle /\ GroupIdle
SpecWeek == SpecWeekInit /\ [][NextWeek]_vars

NextDays ==
    \/ LoopBusinessDay /\ UNCHANGED notDays
    \/ ReturnBusinessDays /\ UNCHANGED notDays
    \/ BuildSchedule /\ UNCHANGED notDays
SpecDaysInit ==
    InitDays /\ AddrIdle /\ DateIdle /\ ParseIdle /\ WriteIdle /\ AggIdle /\ CostIdle
    /\ CoordIdle /\ WeekIdle /\ GroupIdle
SpecDays == SpecDaysInit /\ [][NextDays]_vars

NextGroup ==
    \/ GroupDeliveriesByDate /\ UNCHANGED notGroup
SpecGroupInit ==
    InitGroup /\ AddrIdle /\ DateIdle /\ ParseIdle /\ WriteIdle /\ AggIdle /\ CostIdle
    /\ CoordIdle /\ WeekIdle /\ DaysIdle
SpecGroup == SpecGroupInit /\ [][NextGroup]_vars

NextCoord ==
    \/ TurfCalculateRowNumber /\ UNCHANGED notCoord
    \/ SalesCalculateRowNumber /\ UNCHANGED notCoord
    \/ TurfWriteRowNumber /\ UNCHANGED notCoord
SpecCoordInit ==
    InitCoord /\ AddrIdle /\ DateIdle /\ ParseIdle /\ WriteIdle /\ AggIdle /\ CostIdle
    /\ WeekIdle /\ DaysIdle /\ GroupIdle
SpecCoord == SpecCoordInit /\ [][NextCoord]_vars

\* C1: within one domain's layout tables, two distinct in-bounds coordinates
\* never get the same row number from the forward address mapping.
C1_ForwardMappingInjective ==
    (rowA # NoResult /\ coordA # coordB) => (IsOk(rowA) /\ IsOk(rowB) /\ rowA.ok # rowB.ok)

\* Two distinct coordinates of a Saturday (the reduced-slot day) were addressed.
C1_Witness ==
    /\ IsOk(rowA) /\ addrDomain = "sales" /\ coordA # coordB
    /\ coordA.day = "Saturday" /\ coordB.day = "Saturday"
    /\ coordA.group = "GLEN" /\ coordA.slot = 3
    /\ coordB.group = "GREAT REP" /\ coordB.slot = 1

\* The Monday of the week of d, found without weekday(): 2026-01-05 is a Monday
\* (tests/test_turf_manager_service.py), and Mondays are 7 days apart.
IsMonday(d) == (ToOrdinal(d) - ToOrdinal(Date(2026, 1, 5))) % 7 = 0
LatestMondayOnOrBefore(d) ==
    CHOOSE m \in {DateMinusDays(d, k) : k \in 0..6} : IsMonday(m)

\* C10: for every date the sheet identifier is the 'Mon-DD' formatting of the
\* latest Monday on or before it (0 to 6 days earlier, across month and year
\* boundaries), and the four implementations return the same identifier.
C10_WeekTabIsLatestMonday ==
    /\ \A i \in TabImpls :
          tabNames[i] # NoResult =>
              tabNames[i] = Ok(Strftime_b_d(LatestMondayOnOrBefore(targetDate)))
    /\ \A i \in TabImpls :
          tabNames[i] # NoResult =>
              /\ targetDate = Date(2026, 1, 7) => tabNames[i] = Ok("Jan-05")
              /\ targetDate = Date(2025, 12, 31) => tabNames[i] = Ok("Dec-29")
              /\ targetDate = Date(2026, 1, 4) => tabNames[i] = Ok("Dec-29")
              /\ targetDate = Date(2026, 2, 10) => tabNames[i] = Ok("Feb-09")
              /\ targetDate = Date(2028, 3, 2) => tabNames[i] = Ok("Feb-28")
    /\ \A i, j \in TabImpls :
          (tabNames[i] # NoResult /\ tabNames[j] # NoResult) => tabNames[i] = tabNames[j]

\* All four implementations were applied to a Thursday whose Monday lies in the
\* previous month of the previous year.
C10_Witness ==
    /\ targetDate = Date(2026, 1, 1)
    /\ \A i \in TabImpls : tabNames[i] = Ok("Dec-29")

\* Row i of the fetched grid is a slot row with a positive SQM cell that follows
\* a day header jd, then a truck header jt, then a 'Slot' column header js, with
\* no other day or truck header after jd and no totals row after js.
IsSlotHeaderRow(row) ==
    Len(row) >= 2 /\ StrLower(safe_str(row[1], "")) = "slot"
IsTotalsRow(row) ==
    Len(row) >= 1 /\ StrLower(safe_str(row[1], "")) = "totals"
IsHeaderRow(row) == is_day_header(row) # <<>> \/ is_truck_header(row) # <<>>
SlotRowContexts(i) ==
    {c \in [jd : 1..Len(values), jt : 1..Len(values), js : 1..Len(values)] :
        /\ c.jd < c.jt /\ c.jt < c.js /\ c.js < i
        /\ is_day_header(values[c.jd]) # <<>>
        /\ is_day_header(values[c.jt]) = <<>> /\ is_truck_header(values[c.jt]) # <<>>
        /\ ~IsHeaderRow(values[c.js]) /\ IsSlotHeaderRow(values[c.js])
        /\ \A k \in (c.jd + 1)..(i - 1) : k # c.jt => ~IsHeaderRow(values[k])
        /\ \A k \in (c.js + 1)..(i - 1) : ~IsTotalsRow(values[k])}
QualifyingSlotRows ==
    {i \in 1..Len(values) :
        /\ ~IsHeaderRow(values[i]) /\ is_slot_row(values[i])
        /\ safe_float(CellOrNone(values[i], 4), 0) > 0
        /\ SlotRowContexts(i) # {}}
RecordOfRow(i) ==
    LET c == CHOOSE c \in SlotRowContexts(i) : TRUE
    IN  [truck |-> is_truck_header(values[c.jt])[1],
         day |-> is_day_header(values[c.jd])[1],
         slot |-> PyInt(values[i][1]).ok,
         sqm_sold |-> safe_float(CellOrNone(values[i], 4), 0)]

\* C5: in a slot-first grid every slot row (first cell 1..6) with a positive
\* SQM cell that follows a day header, a truck header and a 'Slot' column
\* header, with no totals row in between, is parsed into exactly one record
\* carrying that day, that truck, the slot of its first cell and its SQM.
C5_SlotRowParsedToOneRecord ==
    (IsOk(parseResult) /\ detect_structure(values) = "slot_first") =>
        /\ \A i \in QualifyingSlotRows :
              LET want == RecordOfRow(i)
                  got == parseResult.ok[want.truck]
              IN  \E k \in 1..Len(got) :
                      /\ got[k].day = want.day /\ got[k].slot = want.slot
                      /\ got[k].sqm_sold = want.sqm_sold
        /\ Len(parseResult.ok["Truck 1"]) + Len(parseResult.ok["Truck 2"])
              = Cardinality(QualifyingSlotRows)

\* C4: whenever update_delivery_field, create_delivery or delete_delivery has
\* returned after at least one of its updates was committed to the
\* spreadsheet, the cache holds no entry stored before that operation,
\* whatever response the operation gave.
C4_MutationInvalidatesCache ==
    (lastOp # NoResult /\ lastOp.commits > 0) =>
        \A key \in DOMAIN cache : storedAt[key] > lastOp.at

\* The answer of an appointment statistics request, when there is one.
SalesAnswered(views) ==
    /\ statsResult # NoResult
    /\ statsResult.service = "sales"
    /\ statsResult.view \in views
TurfAnswered(views) ==
    /\ statsResult # NoResult
    /\ statsResult.service = "turf"
    /\ statsResult.view \in views

\* rate is sold / attended as a percentage rounded to the nearest tenth (a tie
\* to the even tenth), in tenths of a percent; 0 when nobody attended.
RateIsRounded(sold, attended, rate) ==
    IF attended = 0 THEN rate = 0
    ELSE LET d == rate * attended - 1000 * sold
         IN  /\ 2 * d <= attended /\ -2 * d <= attended
             /\ (2 * d = attended \/ -2 * d = attended) => rate % 2 = 0

\* C9: every appointment view (schedule, day, week, month, year) that answers
\* gives an overall conversion rate, and in the statistics views one per rep,
\* equal to sold / attended * 100 rounded to one decimal when attended > 0 and
\* to 0.0 when attended = 0; no request fails on the division.
C9_ConversionRateGuarded ==
    SalesAnswered({"schedule", "day", "week", "month", "annual"}) =>
        LET r == statsResult.response
        IN  IF ~r.success THEN r.error # "ZeroDivisionError"
            ELSE IF statsResult.view = "schedule"
            THEN RateIsRounded(r.day_totals.total_sold, r.day_totals.total_attended,
                               r.day_totals.conversion_rate)
            ELSE /\ RateIsRounded(r.totals.jobs_sold, r.totals.in_homes_attended,
                                  r.totals.conversion_rate)
                 /\ \A i \in 1..Len(r.by_rep) :
                       RateIsRounded(r.by_rep[i].jobs_sold, r.by_rep[i].in_homes_attended,
                                     r.by_rep[i].conversion_rate)

\* A month was answered in which one job was sold out of three appointments
\* attended (33.3 %), one rep having attended none (0.0 %) and another having
\* sold every one attended (100.0 %).
C9_Witness ==
    /\ SalesAnswered({"month"})
    /\ statsResult.response.success
    /\ statsResult.response.totals.in_homes_attended = 3
    /\ statsResult.response.totals.jobs_sold = 1
    /\ statsResult.response.totals.conversion_rate = 333
    /\ \E i \in 1..Len(statsResult.response.by_rep) :
          /\ statsResult.response.by_rep[i].in_homes_attended = 0
          /\ statsResult.response.by_rep[i].conversion_rate = 0
    /\ \E i \in 1..Len(statsResult.response.by_rep) :
          /\ statsResult.response.by_rep[i].in_homes_attended > 0
          /\ statsResult.response.by_rep[i].conversion_rate = 1000

\* The rows of the appointment slots of a week tab whose 'set' cell says yes,
\* and the lead source cell of such a row.
SlotRowNumbers ==
    {Sales_calculate_row_number(c.day, c.group, c.slot).ok : c \in SalesCoords}
CellText(row, idx) == IF idx < Len(row) THEN row[idx + 1] ELSE ""
SetAppointmentRows(week_tab) ==
    {n \in DOMAIN apptSheets[week_tab] \cap SlotRowNumbers :
        Sales_parse_boolean(CellText(apptSheets[week_tab][n], Sales_COLUMNS.appointment_set))}
LeadSourceOfRow(week_tab, n) ==
    CellText(apptSheets[week_tab][n], Sales_COLUMNS.lead_source)
LeadSourceCount(response, source) ==
    LET at == CHOOSE i \in 1..Len(response.by_lead_source) :
                  response.by_lead_source[i].source = source
    IN  response.by_lead_source[at].count

\* C6 as stated: in a week's statistics every set appointment is counted under
\* exactly one lead-source bucket, its own when it is in the enumeration and
\* "Other" when it is not, so that the counts sum to totals.appointments_set.
C6_CountsSumToAppointmentsSet ==
    (SalesAnswered({"week"}) /\ statsResult.response.success) =>
        LET r == statsResult.response
            week_tab == statsResult.arg
        IN  /\ \A source \in LeadSourceSet :
                  LeadSourceCount(r, source) =
                      Cardinality({n \in SetAppointmentRows(week_tab) :
                          (IF LeadSourceOfRow(week_tab, n) \in LeadSourceSet
                           THEN LeadSourceOfRow(week_tab, n) ELSE "Other") = source})
            /\ SumField(r.by_lead_source, "count") = r.totals.appointments_set

\* C6, amended: in a week's statistics every set appointment whose lead-source
\* cell is not blank is counted under exactly one bucket, its own when it is
\* in the enumeration and "Other" when it is not; a set appointment with a
\* blank lead source is counted under none, so the counts sum to the number of
\* set appointments with a lead source.
C6_NonBlankSourcesCountedOnce ==
    (SalesAnswered({"week"}) /\ statsResult.response.success) =>
        LET r == statsResult.response
            week_tab == statsResult.arg
            sourced == {n \in SetAppointmentRows(week_tab) : LeadSourceOfRow(week_tab, n) # ""}
        IN  /\ r.totals.appointments_set = Cardinality(SetAppointmentRows(week_tab))
            /\ \A source \in LeadSourceSet :
                  LeadSourceCount(r, source) =
                      Cardinality({n \in sourced :
                          (IF LeadSourceOfRow(week_tab, n) \in LeadSourceSet
                           THEN LeadSourceOfRow(week_tab, n) ELSE "Other") = source})
            /\ SumField(r.by_lead_source, "count") = Cardinality(sourced)

\* A week was answered that holds a set appointment from "Instagram", counted
\* under "Other", next to one from "Facebook".
C6_Witness ==
    /\ SalesAnswered({"week"})
    /\ statsResult.response.success
    /\ statsResult.response.totals.appointments_set = 2
    /\ LeadSourceCount(statsResult.response, "Other") = 1
    /\ LeadSourceCount(statsResult.response, "Facebook") = 1
    /\ \E n \in SetAppointmentRows(statsResult.arg) :
          LeadSourceOfRow(statsResult.arg, n) = "Instagram"

\* The week tabs that contribute to the month or year that was answered: the
\* tabs the view selects whose read did not fail.
ContributingSalesWeeks ==
    {t \in SeqToSet(Sales_get_available_weeks("listing" \in statsResult.down)) :
        /\ t \notin statsResult.down
        /\ statsResult.view = "month" =>
              WeekInMonth(t, MonthKey(statsResult.arg).ok[1], MonthKey(statsResult.arg).ok[2])}
ContributingTurfWeeks ==
    {t \in SeqToSet(Manager_get_available_weeks({}).ok) :
        /\ t \notin statsResult.down
        /\ statsResult.view = "month" =>
              TabMonthDay(t).ok[1] = MonthKey(statsResult.arg).ok[2]}
TurfRows(week_tab) == managerSheets[TabIndex(managerSheets, week_tab)].rows
CountFields ==
    {"appointments_set", "appointments_confirmed", "in_homes_attended", "jobs_sold"}

SalesPeriodTabs ==
    CASE statsResult.view = "week" -> {statsResult.arg}
      [] statsResult.view = "day" -> {Sales_get_week_tab_name(statsResult.arg)}
      [] OTHER -> ContributingSalesWeeks
TurfPeriodTabs ==
    CASE statsResult.view = "week" -> {statsResult.arg}
      [] statsResult.view = "day" -> {TurfManager_get_week_tab_name(statsResult.arg)}
      [] OTHER -> ContributingTurfWeeks
NoDeliveryRows(rows) ==
    \A i \in 2..Len(rows) : Len(rows[i]) < 5 \/ StrStrip(rows[i][2]) = ""
RequestIsWellFormed ==
    /\ statsResult.down = {}
    /\ statsResult.view = "month" => IsOk(MonthKey(statsResult.arg))
    /\ statsResult.view = "day" => Weekday(statsResult.arg) # 6

\* C8: a well-formed statistics request whose period has no record, because
\* no week tab matches it or because the matching tabs hold no data row, is
\* answered with success = true and every total, fee, cost and rate zero.
C8_EmptyPeriodIsZeroSuccess ==
    /\ (/\ SalesAnswered({"day", "week", "month", "annual"})
        /\ RequestIsWellFormed
        /\ \A t \in SalesPeriodTabs \cap DOMAIN apptSheets : DOMAIN apptSheets[t] = {}) =>
           LET r == statsResult.response
           IN  /\ r.success
               /\ \A f \in DOMAIN r.totals : r.totals[f] = 0
               /\ \A i \in 1..Len(r.by_rep) :
                     \A f \in DOMAIN r.by_rep[i] \ {"name"} : r.by_rep[i][f] = 0
    /\ (/\ TurfAnswered({"day", "week", "month", "annual"})
        /\ RequestIsWellFormed
        /\ \A t \in TurfPeriodTabs :
              TabIndex(managerSheets, t) # 0 => NoDeliveryRows(TurfRows(t))) =>
           /\ IsOk(statsResult.response)
           /\ LET r == statsResult.response.ok
              IN  /\ r.success
                  /\ r.by_variety = <<>>
                  /\ \A f \in DOMAIN r.variety_totals : r.variety_totals[f] = 0
                  /\ \A f \in DOMAIN r.delivery_fees : r.delivery_fees[f] = 0
                  /\ \A f \in DOMAIN r.laying : r.laying[f] = 0
                  /\ \A f \in DOMAIN r.totals : r.totals[f] = 0

\* The grid with the fee cells (columns I and J) of every data row blanked.
WithoutFees(grid) ==
    [i \in 1..Len(grid) |->
        [j \in 1..Len(grid[i]) |-> IF i > 1 /\ j \in {9, 10} THEN "" ELSE grid[i][j]]]

\* The cost c (cents) is sqm (hundredths of a square metre) times 2.20,
\* rounded to the nearest cent.
IsRoundedLayingCost(c, sqm) == 
    /\ 2 * (100 * c - 220 * sqm) <= 100
    /\ 2 * (220 * sqm - 100 * c) <= 100

\* C11: every delivery record's laying cost is sqm_sold * 2.20 rounded to cents
\* when its service type is SL and 0 when it is SD or P, and it is the same
\* whatever the fee cells of the row and the fee fields of the record hold.
C11_LayingCostBySqmAndService ==
    IsOk(deliveries) =>
        /\ \A i \in 1..Len(deliveries.ok) :
              LET d == deliveries.ok[i]
              IN  /\ IsOk(d)
                  /\ d.ok.service_type \in {"SL", "SD", "P"}
                  /\ d.ok.service_type = "SL" =>
                         IsRoundedLayingCost(d.ok.laying_cost, d.ok.sqm)
                  /\ d.ok.service_type \in {"SD", "P"} => d.ok.laying_cost = 0
        /\ LET blank == DeliveriesOf(WithoutFees(flatValues))
           IN  /\ Len(blank) = Len(deliveries.ok)
               /\ \A i \in 1..Len(blank) :
                      blank[i].ok.laying_cost = deliveries.ok[i].ok.laying_cost

\* A supply-and-lay row of 33.35 m2 with both fee cells filled was converted:
\* its laying cost is 73.37.
C11_Witness ==
    /\ IsOk(deliveries) /\ Len(deliveries.ok) = 1
    /\ flatValues[2][9] = "50" /\ flatValues[2][10] = "220"
    /\ deliveries.ok[1].ok.service_type = "SL"
    /\ deliveries.ok[1].ok.sqm = 3335
    /\ deliveries.ok[1].ok.laying_cost = 7337

\* The SQM of the rows of a grid that the aggregation counts: every row but
\* the first that has at least five cells and a variety.
RECURSIVE CountedSqmFrom(_, _)
CountedSqmFrom(rows, i) ==
    IF i > Len(rows) THEN 0
    ELSE (IF Len(rows[i]) >= 5 /\ StrStrip(rows[i][2]) # ""
          THEN Manager_parse_float(rows[i][5]) ELSE 0)
         + CountedSqmFrom(rows, i + 1)

KeysOf(items, field) == {items[i][field] : i \in 1..Len(items)}
OneEntryEach(items, field, members) ==
    KeysOf(items, field) = members /\ Len(items) = Cardinality(members)
VarietySet == {VARIETIES[i] : i \in 1..Len(VARIETIES)}
StatsViews == {"day", "week", "month", "annual"}

\* The varieties of the rows of a grid that the aggregation counts.
CountedVarieties(rows) ==
    {rows[i][2] : i \in {j \in 2..Len(rows) : Len(rows[j]) >= 5 /\ StrStrip(rows[j][2]) # ""}}

SlotsPerGroup(domain, day) ==
    IF domain = "turf" THEN SLOTS_PER_TRUCK ELSE SLOTS_PER_DAY[day]
OutOfBounds(r) ==
    \/ r.day \notin (IF r.domain = "turf" THEN Turf_DAYS ELSE Sales_DAYS)
    \/ r.group \notin (IF r.domain = "turf" THEN Turf_TRUCKS ELSE SALES_REPS)
    \/ r.slot < 1
    \/ r.slot > SlotsPerGroup(r.domain, r.day)

\* C15: in both domains a coordinate whose slot lies outside
\* 1..SlotsPerGroup(domain, day), or whose day or group is unknown, is rejected
\* and never yields a computed row number, neither from the address calculator
\* nor in the row used by a write.
C15_OutOfBoundsNeverYieldsRow ==
    (coordRequest # NoResult /\ OutOfBounds(coordRequest)) => ~IsOk(coordRow)

\* What holds of the turf write handlers: they answer an out-of-bounds
\* coordinate with error_code 400.
C15_TurfWritesReject ==
    (coordRequest # NoResult /\ coordRequest.op = "write" /\ OutOfBounds(coordRequest))
        => coordRow = [success |-> FALSE, error_code |-> 400]

\* The column of the last request is outside the EDITABLE_COLUMNS of its
\* handler's domain (the appointment handler reads the letter in either case).
ColumnNotEditable(op) ==
    \/ op.op = "update_delivery_field" /\ op.column \notin EDITABLE_COLUMNS
    \/ op.op = "update_appointment_field"
       /\ StrUpper(op.column) \notin Sales_EDITABLE_COLUMNS

WithoutRow(grid, i) ==
    [j \in 1..(Len(grid) - 1) |-> IF j < i THEN grid[j] ELSE grid[j + 1]]
TotalRecords(result) == Len(result["Truck 1"]) + Len(result["Truck 2"])
ParseAs(variant, grid) ==
    IF variant = "day_first" THEN parse_day_first_structure(grid)
    ELSE parse_slot_first_structure(grid)

\* Row i of the grid is a data row of the detected variant that was skipped:
\* the result has as many records behind it as before it.
SkippedDataRow(grid, variant, i) ==
    /\ \/ variant = "slot_first" /\ is_slot_row(grid[i])
       \/ variant = "day_first" /\ is_day_data_row(grid[i]) # <<>>
    /\ TotalRecords(ParseAs(variant, SubSeq(grid, 1, i)))
          = TotalRecords(ParseAs(variant, SubSeq(grid, 1, i - 1)))

IsBlankRow(row) == Len(row) = 0 \/ row[1] = "" \/ StrStrip(row[1]) = ""
IsMarkerRow(row) ==
    StrUpper(StrStrip(row[1])) \in {"TRUCK 1", "TRUCK 2", "SLOT", "DAY", "TOTALS"}
IsDayHeaderRow(row) ==
    \E d \in DayNames : StartsWith(StrLower(StrStrip(row[1])), StrLower(d) \o " -")
IsPassedOver(row) == IsBlankRow(row) \/ IsMarkerRow(row) \/ IsDayHeaderRow(row)

\* The first cell is an integer from 1 to 6, or begins with a day name.
HasSlotNumber(row) ==
    LET n == PyInt(StrStrip(row[1])) IN IsOk(n) /\ n.ok \in 1..6
HasDayName(row) == \E d \in DayNames : StartsWith(StrStrip(row[1]), d)

\* The rows that decide the structure, and the structure the first of them
\* gives; slot_first when there is none.
DecidingRows(grid) ==
    {i \in 1..Len(grid) :
        ~IsPassedOver(grid[i]) /\ (HasSlotNumber(grid[i]) \/ HasDayName(grid[i]))}
ExpectedStructure(grid) ==
    IF DecidingRows(grid) = {} THEN "slot_first"
    ELSE LET first == CHOOSE i \in DecidingRows(grid) : \A j \in DecidingRows(grid) : i <= j
         IN  IF HasDayName(grid[first]) /\ ~HasSlotNumber(grid[first])
             THEN "day_first" ELSE "slot_first"

\* C18: _detect_structure returns day_first exactly when the first row, blank
\* rows, marker rows and day-header rows being passed over, whose first cell is
\* an integer 1..6 or a day name has a day name; otherwise, and when there
\* is no such row, it returns slot_first.
C18_StructureIsFirstDecidingRow ==
    structure # None => structure = ExpectedStructure(values)

\* A grid whose day header, truck header and out-of-range slot row are passed
\* over before a row with a day name decides for day_first.
C18_Witness ==
    /\ structure = "day_first"
    /\ Len(values) = 4
    /\ values[1] = <<"Monday - Daily Turf Deliveries">>
    /\ values[2] = <<"TRUCK 1">>
    /\ values[3] = <<"7", "Empire Zoysia", "Pimpama", "SL", "100", "2">>
    /\ values[4] = <<"Monday", "Empire Zoysia", "Pimpama", "SL", "100", "2">>

\* The first n Monday-Friday dates from a start date on, and the Monday of
\* the week a date lies in.
BusinessWindow(start, n) ==
    LET span == {DatePlusDays(start, i) : i \in 0..(2 * n + 1)}
        weekdaysUpTo(d) == {e \in span : Weekday(e) < 5 /\ ToOrdinal(e) <= ToOrdinal(d)}
    IN  {d \in span : Weekday(d) < 5 /\ Cardinality(weekdaysUpTo(d)) <= n}
MondayOfWeek(d) == CHOOSE m \in {DateMinusDays(d, k) : k \in 0..6} : Weekday(m) = 0

\* The year the rollover rule gives a sheet of a month seen on a reference date.
RolloverYear(month, reference) ==
    IF month = 1 /\ reference.month = 12 THEN reference.year + 1
    ELSE IF month = 12 /\ reference.month = 1 THEN reference.year - 1
    ELSE reference.year

\* C19: for every reference date and every date d of the 10-business-day
\* window starting at it, the sheet name of d's week parses back into the
\* Monday of d's week, in the year the rollover rule gives: the next year for
\* a January sheet seen in December, the previous year for a December sheet
\* seen in January, the reference year otherwise.
C19_SheetNameParsesBackToMonday ==
    weekStart # NoResult =>
        \A d \in BusinessWindow(australiaToday, 10) :
            get_week_sheet_name(d) = actualSheet =>
                /\ weekStart = MondayOfWeek(d)
                /\ weekStart.year = RolloverYear(MondayOfWeek(d).month, australiaToday)

\* The same for every week but one that starts on a 29 February.
C19_ParsesBackUnlessLeapMonday ==
    weekStart # NoResult =>
        \A d \in BusinessWindow(australiaToday, 10) :
            (get_week_sheet_name(d) = actualSheet /\ actualSheet # "Feb-29") =>
                /\ weekStart = MondayOfWeek(d)
                /\ weekStart.year = RolloverYear(MondayOfWeek(d).month, australiaToday)

\* The required sheets are the sheet names of the window's dates.
C19_RequiredSheetsCoverWindow ==
    requiredSheets # NoResult =>
        {requiredSheets.ok[i] : i \in 1..Len(requiredSheets.ok)}
            = {get_week_sheet_name(d) : d \in BusinessWindow(australiaToday, 10)}

\* A January sheet seen in December got the next year.
C19_RolloverReached ==
    /\ australiaToday = Date(2025, 12, 24)
    /\ actualSheet = "Jan-05"
    /\ weekStart = Date(2026, 1, 5)

\* The shape of a returned list: n dates, all Monday-Friday, strictly
\* increasing, none before the start, and no weekday left out between the
\* first and the last.
IsBusinessDayRun(days, start, n) ==
    /\ Len(days) = n
    /\ \A i \in 1..Len(days) : Weekday(days[i]) < 5
    /\ \A i \in 1..Len(days) : ToOrdinal(days[i]) >= ToOrdinal(start)
    /\ \A i \in 1..(Len(days) - 1) :
           /\ ToOrdinal(days[i]) < ToOrdinal(days[i + 1])
           /\ \A o \in (ToOrdinal(days[i]) + 1)..(ToOrdinal(days[i + 1]) - 1) :
                  (o + 6) % 7 >= 5

\* C20: get_next_business_days(start, n) terminates for every start date and
\* every n >= 0 and returns exactly n dates, all Monday-Friday, strictly
\* increasing, none earlier than start, with every weekday between the first
\* and the last among them; build_schedule then has exactly 10 day entries.
\* (The call never ends in an exception, its loop has walked at most two
\* days for every day it has collected and two more, and what it returns has
\* this shape.)
C20_ReturnsNBusinessDays ==
    /\ pc # "raised"
    /\ pc = "loop" =>
           ToOrdinal(currentDate) - ToOrdinal(startDate) <= 2 * Len(businessDays) + 2
    /\ pc = "returned" => IsBusinessDayRun(businessDays, startDate, dayCount)
    /\ scheduleDays # NoResult => Len(scheduleDays.ok) = 10

\* The same, for every call that has not ended in an exception.
C20_ReturnsUnlessRaised ==
    /\ pc = "loop" =>
           ToOrdinal(currentDate) - ToOrdinal(startDate) <= 2 * Len(businessDays) + 2
    /\ pc = "returned" => IsBusinessDayRun(businessDays, startDate, dayCount)
    /\ scheduleDays # NoResult => Len(scheduleDays.ok) = 10

\* A call raises only when the day after a collected or passed date is past
\* date.max.
C20_RaisesOnlyAtDateMax ==
    pc = "raised" => currentDate = DateMax

\* build_schedule made its ten entries over a weekend and the year boundary.
C20_ScheduleReached ==
    /\ scheduleDays # NoResult
    /\ startDate = Date(2025, 12, 27)
    /\ Len(scheduleDays.ok) = 10
    /\ scheduleDays.ok[1].date = Date(2025, 12, 29)
    /\ scheduleDays.ok[10].date = Date(2026, 1, 9)

\* The dates on which record i of the given list lies in the buckets, and
\* how often it lies in a bucket.
Placements(i) ==
    {d \in DOMAIN grouped.ok :
        \E k \in 1..Len(grouped.ok[d]) : grouped.ok[d][k] = groupDeliveries[i]}
TimesPlaced(i, d) ==
    Cardinality({k \in 1..Len(grouped.ok[d]) : grouped.ok[d][k] = groupDeliveries[i]})

\* The weekday and the week index a day cell stands for.
DayCellMeaning(day) ==
    CASE day \in {"Monday", "Mon"} -> [weekday |-> 0, week |-> 1]
      [] day = "Monday W2" -> [weekday |-> 0, week |-> 2]
      [] day = "Friday" -> [weekday |-> 4, week |-> 1]
      [] day = "Fri Week 2" -> [weekday |-> 4, week |-> 2]
      [] day = "Saturday" -> [weekday |-> 5, week |-> 1]
      [] OTHER -> [weekday |-> 7, week |-> 1]
Occurrences(weekday) == SelectSeq(groupDays, LAMBDA d : Weekday(d) = weekday)

\* C21: _group_deliveries_by_date puts every record in at most one bucket,
\* and the buckets are the business days of the window: a record with a week
\* start lies on week start + weekday offset of its day exactly when that
\* date is in the window; a record without one lies on the occurrence of its
\* weekday that its week index (1 or 2) selects, and on the first occurrence
\* when the window has fewer occurrences than the index.
C21_RecordsGroupedByDate ==
    grouped # NoResult =>
        /\ DOMAIN grouped.ok = DateSet(groupDays)
        /\ \A i \in 1..Len(groupDeliveries) :
              LET r == groupDeliveries[i]
                  m == DayCellMeaning(r.day)
                  occ == Occurrences(m.weekday)
                  anchored == DatePlusDays(r.week_start_date, m.weekday)
              IN  /\ Cardinality(Placements(i)) <= 1
                  /\ \A d \in Placements(i) : TimesPlaced(i, d) = 1
                  /\ r.week_start_date # PyNone =>
                         Placements(i) = {anchored} \cap DateSet(groupDays)
                  /\ r.week_start_date = PyNone =>
                         Placements(i) =
                             IF Len(occ) = 0 THEN {}
                             ELSE IF m.week <= Len(occ) THEN {occ[m.week]}
                             ELSE {occ[1]}

\* In a ten-day window from Monday on, a Friday of the second week without
\* a week start lies on the second Friday, and a Monday of the week after
\* the window lies nowhere.
C21_Witness ==
    /\ grouped # NoResult
    /\ groupDays = get_next_business_days(Date(2026, 1, 5), 10)
    /\ groupDeliveries =
           << [day |-> "Fri Week 2", slot |-> 1, week_start_date |-> PyNone],
              [day |-> "Monday", slot |-> 2, week_start_date |-> Date(2026, 1, 19)] >>
    /\ grouped.ok[Date(2026, 1, 16)] = <<groupDeliveries[1]>>
    /\ \A d \in DOMAIN grouped.ok : d # Date(2026, 1, 16) => grouped.ok[d] = <<>>

\* The week-view fold over the records of one day of a week tab.
DayFold(week_tab, day_name) ==
    WeekResponse(week_tab,
                 WeeklyFoldReps(ZeroWeek, RangeRows(apptSheets[week_tab], 1, 180), day_name, 1))
RepCountsAgree(r, other) ==
    /\ Len(r.by_rep) = Len(other.by_rep)
    /\ \A i \in 1..Len(other.by_rep) :
          /\ r.by_rep[i].name = other.by_rep[i].name
          /\ \A f \in CountFields : r.by_rep[i][f] = other.by_rep[i][f]
MonthOfOneWeek ==
    /\ SalesAnswered({"month"})
    /\ statsResult.response.success
    /\ Cardinality(ContributingSalesWeeks) = 1
DayAnswered ==
    /\ SalesAnswered({"day"})
    /\ statsResult.response.success

\* C22: the appointment statistics of a period are the week-view fold over
\* the records of the period: a month made of one week sheet has the totals
\* and the per-rep, per-day and per-lead-source figures of the week view of
\* that sheet, and the day view has the set, confirmed, attended and sold
\* totals and the per-rep and per-lead-source figures of that day's records.
C22_PeriodIsFoldOfItsRecords ==
    /\ MonthOfOneWeek =>
           LET r == statsResult.response
               week == get_weekly_stats(CHOOSE t \in ContributingSalesWeeks : TRUE, FALSE)
           IN  /\ \A f \in CountFields \cup {"weekly_sales_total", "conversion_rate"} :
                     r.totals[f] = week.totals[f]
               /\ RepCountsAgree(r, week)
               /\ r.by_day = week.by_day
               /\ r.by_lead_source = week.by_lead_source
    /\ DayAnswered =>
           LET r == statsResult.response
               own == DayFold(r.week, Sales_get_day_name(statsResult.arg))
           IN  /\ \A f \in CountFields \cup {"conversion_rate"} :
                     r.totals[f] = own.totals[f]
               /\ RepCountsAgree(r, own)
               /\ r.by_lead_source = own.by_lead_source

\* What the views do give: the month of one week sheet has the week's totals
\* and per-rep counts, and the day view has the day's attended and sold
\* totals and rate.
C22_TotalsOfOneWeekAndDay ==
    /\ MonthOfOneWeek =>
           LET r == statsResult.response
               week == get_weekly_stats(CHOOSE t \in ContributingSalesWeeks : TRUE, FALSE)
           IN  /\ \A f \in CountFields \cup {"weekly_sales_total", "conversion_rate"} :
                     r.totals[f] = week.totals[f]
               /\ RepCountsAgree(r, week)
    /\ DayAnswered =>
           LET r == statsResult.response
               own == DayFold(r.week, Sales_get_day_name(statsResult.arg))
           IN  \A f \in {"in_homes_attended", "jobs_sold", "conversion_rate"} :
                   r.totals[f] = own.totals[f]

\* The month view leaves the per-day and per-lead-source figures out.
C22_MonthHasDayFigures ==
    MonthOfOneWeek => statsResult.response.by_day # <<>>

\* The day view reports the set appointments of the day.
C22_DayCountsSetAppointments ==
    DayAnswered =>
        statsResult.response.totals.appointments_set
            = DayFold(statsResult.response.week,
                      Sales_get_day_name(statsResult.arg)).totals.appointments_set

\* The per-rep figures of the day view are those of the day.
C22_DayRepsAreOfTheDay ==
    DayAnswered =>
        RepCountsAgree(statsResult.response,
                       DayFold(statsResult.response.week,
                               Sales_get_day_name(statsResult.arg)))

\* The turf request whose week tab exists in the spreadsheet while the read
\* of it fails.
TurfFetchFailed ==
    /\ TurfAnswered({"day", "week"})
    /\ LET week_tab == IF statsResult.view = "day"
                       THEN TurfManager_get_week_tab_name(statsResult.arg)
                       ELSE statsResult.arg
       IN  /\ week_tab \in statsResult.down
           /\ TabIndex(managerSheets, week_tab) # 0

\* C23: a read whose sheet fetch fails (permission, rate limit, server error)
\* is reported to the caller as a failure, a raised error or success = FALSE,
\* never as a successful result with empty or all-zero data.
C23_FailedFetchIsReportedAsFailure ==
    TurfFetchFailed =>
        \/ IsRaise(statsResult.response)
        \/ ~statsResult.response.ok.success

\* What the turf views answer instead: success with every total at zero.
C23_FailedFetchAnswersZeroSuccess ==
    TurfFetchFailed =>
        /\ IsOk(statsResult.response)
        /\ statsResult.response.ok.success
        /\ statsResult.response.ok.totals = ManagerResponse("week", <<<<"Header">>>>).ok.totals

\* The appointment views do report the failed read of the week tab.
C23_SalesFailureReported ==
    /\ SalesAnswered({"week"}) /\ statsResult.arg \in statsResult.down
           => ~statsResult.response.success
    /\ SalesAnswered({"day"}) /\ Weekday(statsResult.arg) # 6
          /\ Sales_get_week_tab_name(statsResult.arg) \in statsResult.down
           => ~statsResult.response.success

\* A turf week whose rows are in the spreadsheet is asked for while the read fails.
C23_FailedFetchReached ==
    /\ TurfFetchFailed
    /\ statsResult.view = "week"
    /\ Len(managerSheets[TabIndex(managerSheets, statsResult.arg)].rows) > 2

\* The entry under the key is in the cache and younger than its TTL.
LiveEntry(key) ==
    /\ key \in DOMAIN cache
    /\ now - cache[key].created_at < cache[key].ttl_seconds

\* C24: a cache read returns stored data only if an entry exists for the key
\* and its age is strictly less than its TTL; a read that finds an entry of
\* age >= TTL removes that entry and reports a miss; an entry leaves the cache
\* only through such a read or through clear_cache, never by the passing of
\* time alone.
C24_LazyExpiry ==
    [][/\ lastRead' # lastRead =>
              LET key == get_cache_key(lastRead'.sheet_name)
              IN  /\ lastRead'.hit <=> LiveEntry(key)
                  /\ LiveEntry(key) =>
                        /\ lastRead'.result = Ok(cache[key].data)
                        /\ cache' = cache
                  /\ (key \in DOMAIN cache /\ ~LiveEntry(key)) =>
                        /\ ~lastRead'.hit
                        /\ key \in DOMAIN cache' =>
                              /\ cache'[key].created_at = now
                              /\ storedAt'[key] = opSeq'
       /\ \A k \in DOMAIN cache :
              (k \notin DOMAIN cache' \/ storedAt'[k] # storedAt[k]) =>
                  \/ /\ lastOp' # lastOp
                     /\ cache' = EmptyCache
                  \/ /\ lastRead' # lastRead
                     /\ k = get_cache_key(lastRead'.sheet_name)
                     /\ ~LiveEntry(k)
       /\ now' # now => cache' = cache]_vars

\* A week has been read again at the second its entry's TTL had elapsed and
\* was fetched anew, while the expired entry of the other week is still in the
\* cache.
C24_Witness ==
    /\ lastRead # NoResult /\ lastRead.at = opSeq /\ ~lastRead.hit
    /\ lastOp = NoResult
    /\ now = graph_cache_ttl_seconds
    /\ LET key == get_cache_key(lastRead.sheet_name)
       IN  /\ key \in DOMAIN cache /\ cache[key].created_at = now
           /\ \E other \in DOMAIN cache \ {key} :
                  /\ ~LiveEntry(other)
                  /\ storedAt[other] < storedAt[key]

\* The last write was a delivery write that ran to its clear_cache() call: a
\* delivery handler reports success exactly when it did.
ClearedByLastWrite ==
    /\ lastOp # NoResult
    /\ lastOp.op \in {"update_delivery_field", "create_delivery", "delete_delivery"}
    /\ lastOp.response.success

\* What a fetch of the sheet from the spreadsheet as it is now parses to.
FreshParse(sheet_name) ==
    parse_weekly_sheet(WorksheetValues(
        sheets[IF sheet_name \in DOMAIN sheets THEN sheet_name ELSE "MASTER"]))

C26_HitAfterClear ==
    /\ ClearedByLastWrite /\ lastOp.at = 1
    /\ lastRead # NoResult /\ lastRead.at = 3 /\ lastRead.hit
    /\ storedAt[get_cache_key(lastRead.sheet_name)] = 2

\* The parse of the MASTER tab as the spreadsheet holds it.
MasterParse == parse_weekly_sheet(WorksheetValues(sheets["MASTER"]))

\* C27: when the requested weekly sheet does not exist and the requests
\* themselves go through, get_weekly_sheet_data returns the parse of the
\* MASTER sheet and stores it under the requested sheet's cache key, and a
\* later read of that name is served that entry while it is live; when MASTER
\* is missing too the not-found error propagates and no entry is stored.
C27_MissingSheetFallsBackToMaster ==
    [][(lastRead' # lastRead /\ lastRead'.sheet_name \notin DOMAIN sheets
            /\ lastRead'.result # Raise("GoogleSheetsAPIError")) =>
          LET key == "gsheets:weekly:" \o lastRead'.sheet_name
          IN  IF LiveEntry(key)
              THEN /\ lastRead'.hit
                   /\ lastRead'.result = Ok(MasterParse)
                   /\ cache' = cache
              ELSE IF "MASTER" \in DOMAIN sheets
              THEN /\ lastRead'.result = Ok(MasterParse)
                   /\ DOMAIN cache' = DOMAIN cache \cup {key}
                   /\ cache'[key] = [data |-> MasterParse, created_at |-> now,
                                     ttl_seconds |-> graph_cache_ttl_seconds]
                   /\ "gsheets:weekly:MASTER" \notin DOMAIN cache'
              ELSE /\ lastRead'.result = Raise("GoogleSheetsNotFoundError")
                   /\ DOMAIN cache' = DOMAIN cache \ {key}
                   /\ \A k \in DOMAIN cache' : cache'[k] = cache[k]]_vars

\* The week 'Jan-12', which the spreadsheet does not have, has been read twice:
\* the second read was served the MASTER parse stored by the first.
C27_Witness ==
    /\ "Jan-12" \notin DOMAIN sheets /\ "MASTER" \in DOMAIN sheets
    /\ lastRead # NoResult /\ lastRead.sheet_name = "Jan-12" /\ lastRead.hit
    /\ lastRead.result = Ok(MasterParse)
    /\ "gsheets:weekly:Jan-12" \in DOMAIN cache
    /\ storedAt["gsheets:weekly:Jan-12"] < lastRead.at

\* Neither the week nor MASTER exists: the read raised and cached nothing.
C27_NotFoundReached ==
    /\ "MASTER" \notin DOMAIN sheets
    /\ lastRead # NoResult /\ lastRead.sheet_name = "Jan-12"
    /\ lastRead.result = Raise("GoogleSheetsNotFoundError")
    /\ "gsheets:weekly:Jan-12" \notin DOMAIN cache

\* The row holds a delivery: one of its cells B..E (variety, suburb, service
\* type, SQM) is filled in.
HoldsDelivery(row) ==
    \E c \in {"B", "C", "D", "E"} : row[ColumnIndex(c)] # ""

\* The step is a create_delivery request running to its return.
CreateStep == lastOp' # lastOp /\ lastOp'.op = "create_delivery"

\* The rows of the delivery spreadsheet the step writes.
RowsWritten ==
    {tr \in {<<t, r>> : t \in DOMAIN sheets, r \in 1..Len(WeekTemplate)} :
        sheets'[tr[1]][tr[2]] # sheets[tr[1]][tr[2]]}

\* C30: create_delivery never writes to an occupied slot: a row it writes held
\* no delivery before, so a second create for the coordinate of a successful
\* create, with no delete in between, writes nothing and is answered 409.
C30_CreateNeverWritesOccupiedSlot ==
    [][CreateStep =>
          \A tr \in RowsWritten : ~HoldsDelivery(sheets[tr[1]][tr[2]])]_vars

\* What the handler does guarantee: the validation, the tab check and the
\* occupancy read precede the first update, a rejected request writes
\* nothing, and a row whose variety cell is filled in is never written.
C30_ChecksPrecedeUpdate ==
    [][CreateStep =>
          /\ lastOp'.response = Failure(400) => lastOp'.calls = 0
          /\ lastOp'.response = Failure(404) => lastOp'.calls = 1
          /\ lastOp'.response = Failure(409) => lastOp'.calls = 2
          /\ lastOp'.response \in {Failure(400), Failure(404), Failure(409)} =>
                lastOp'.commits = 0 /\ sheets' = sheets
          /\ lastOp'.commits > 0 => lastOp'.calls >= 3
          /\ lastOp'.commits = 0 => sheets' = sheets
          /\ \A tr \in RowsWritten :
                sheets[tr[1]][tr[2]][ColumnIndex("B")] = ""]_vars

\* A delivery without a variety has been created in slot 1 of Monday, TRUCK 1.
C30_CreatedWithoutVariety ==
    /\ lastOp # NoResult /\ lastOp.op = "create_delivery" /\ lastOp.response.success
    /\ sheets["Jan-05"][5] = RowOf(<<"1", "", "Pimpama", "SL", "100">>)

\* A create for a slot whose variety is filled in has been answered 409.
C30_RejectedReached ==
    /\ lastOp # NoResult /\ lastOp.op = "create_delivery"
    /\ lastOp.response = Failure(409) /\ lastOp.commits = 0

\* The state of the slot-first loop after the first i rows of the grid.
SlotFirstStateAfter(i) ==
    SlotFirstLoop([current_day |-> <<>>, current_truck |-> <<>>,
                   in_data_section |-> FALSE, result |-> EmptyParse],
                  SubSeq(values, 1, i), 1)

\* The rows of the grid by what they are, read off the grid alone.
DayHeaderAt(i) == is_day_header(values[i]) # <<>>
TruckHeaderAt(i) == ~DayHeaderAt(i) /\ is_truck_header(values[i]) # <<>>
LastRowUpTo(i, rows) ==
    IF rows \cap (1..i) = {} THEN 0
    ELSE CHOOSE r \in rows \cap (1..i) : \A q \in rows \cap (1..i) : q <= r
DayHeaderRows == {r \in 1..Len(values) : DayHeaderAt(r)}
TruckHeaderRows == {r \in 1..Len(values) : TruckHeaderAt(r)}
\* The day of the most recent day header among the first i rows.
DaySince(i) ==
    LET d == LastRowUpTo(i, DayHeaderRows)
    IN  IF d = 0 THEN <<>> ELSE is_day_header(values[d])
\* The truck of the most recent truck header, if it comes after that day header.
TruckSince(i) ==
    LET d == LastRowUpTo(i, DayHeaderRows)
        t == LastRowUpTo(i, TruckHeaderRows)
    IN  IF t > d THEN is_truck_header(values[t]) ELSE <<>>
\* A 'Slot' column-header row under a truck header, and a totals row.
SlotHeaderAt(i) ==
    /\ Len(values[i]) >= 2 /\ ~DayHeaderAt(i) /\ ~TruckHeaderAt(i)
    /\ StrLower(safe_str(values[i][1], "")) = "slot"
    /\ TruckSince(i - 1) # <<>>
TotalsAt(i) ==
    /\ Len(values[i]) > 0 /\ ~DayHeaderAt(i) /\ ~TruckHeaderAt(i)
    /\ StrLower(safe_str(values[i][1], "")) = "totals"
\* Since the most recent day header a truck header and then a 'Slot' header
\* were seen, with no later totals, truck-header or day-header row.
DataSectionOpenSince(i) ==
    \E s \in 1..i :
        /\ SlotHeaderAt(s)
        /\ \A j \in (s + 1)..i :
              ~DayHeaderAt(j) /\ ~TruckHeaderAt(j) /\ ~TotalsAt(j)

C28_OpenSectionReached ==
    /\ structure = "slot_first" /\ IsOk(parseResult) /\ Len(values) = 4
    /\ DayHeaderAt(1) /\ TruckHeaderAt(2) /\ SlotHeaderAt(3)
    /\ is_slot_row(values[4]) /\ Len(values[4]) > 4
    /\ DataSectionOpenSince(3) /\ SlotFirstStateAfter(3).in_data_section

====
